---- MODULE Spec2Model ----
(***************************************************************************)
(* Plan generation of the study-plan advisor (curriculum.py): the          *)
(* curriculum graph, the eligibility resolver, the intensive-session       *)
(* option finder, the greedy semester selector and generate_full_plan      *)
(* with its MILP attempt and its heuristic plan driver, over the two       *)
(* course datasets of courses_data.py.  The solver of the MILP attempt is  *)
(* not run: the attempt is a step whose outcome the environment fixes      *)
(* (PuLP missing, the step raising, an empty plan, the optimum).           *)
(*                                                                         *)
(* Around it, the part of app.py that calls it: the cached graph of the    *)
(* selected program, update_plan storing the result in the session and    *)
(* bringing the session's per-semester options in line with the plan.      *)
(* FaultSpec adds runs in which the runtime fails one call of              *)
(* generate_full_plan with an exception.                                   *)
(*                                                                         *)
(* Course names are written without diacritics ("Ingles 1" for the         *)
(* dataset's accented spelling); the folding is injective on both          *)
(* datasets.  The name tests of the code (substring "Ingles", substring    *)
(* "Core Curriculum" in either spelling, equality with "Precalculo") are   *)
(* modelled by the sets of dataset names that satisfy them.                *)
(***************************************************************************)
EXTENDS Integers, Sequences, FiniteSets, TLC

\* ------------------------------------------------------------------------
\* courses_data.py
\* ------------------------------------------------------------------------

\* One dataset entry: "name": {"credits", "semester", "prerequisites",
\* "corerequisites"} (the two lists are optional in the dataset; an absent
\* list is the empty one, as info.get(..., []) reads it).
Course(n, c, s, pre, co) ==
  [name |-> n, credits |-> c, semester |-> s,
   prerequisites |-> pre, corerequisites |-> co]

fisioterapia_courses ==
  <<
    Course("Competencias idiomaticas basicas", 2, 1, <<>>, <<>>),
    Course("Ciencias basicas", 6, 1, <<>>, <<>>),
    Course("Morfofisiologia I", 6, 1, <<>>, <<>>),
    Course("Fundamentos de Fisioterapia", 3, 1, <<>>, <<>>),
    Course("Morfofisiologia II", 6, 2, <<"Morfofisiologia I", "Ciencias basicas">>, <<>>),
    Course("Desarrollo motor humano", 2, 2, <<>>, <<>>),
    Course("Psicologia del aprendizaje", 2, 2, <<>>, <<>>),
    Course("Competencias basicas digitales", 3, 2, <<>>, <<>>),
    Course("Condiciones de salud y movimiento corporal humano", 4, 3, <<"Morfofisiologia II">>, <<>>),
    Course("Biomecanica", 6, 3, <<"Morfofisiologia II">>, <<>>),
    Course("Salud mental y movimiento corporal humano", 4, 3, <<>>, <<>>),
    Course("Evaluacion y diagnostico fisioterapeutico I", 4, 4, <<"Condiciones de salud y movimiento corporal humano", "Biomecanica">>, <<>>),
    Course("Tecnologia en fisioterapia", 4, 4, <<>>, <<>>),
    Course("Fisiologia y prescripcion del ejercicio", 3, 4, <<"Morfofisiologia II">>, <<>>),
    Course("Precalculo", 2, 4, <<>>, <<>>),
    Course("Bioestadistica y epidemiologia", 2, 5, <<"Precalculo">>, <<>>),
    Course("Evaluacion y diagnostico fisioterapeutico II", 4, 5, <<"Evaluacion y diagnostico fisioterapeutico I", "Ingles 3">>, <<>>),
    Course("Procesos de interaccion fisioterapeutica I", 4, 5, <<"Evaluacion y diagnostico fisioterapeutico I">>, <<>>),
    Course("Fundamentos de salud publica", 3, 5, <<>>, <<>>),
    Course("Investigacion I", 2, 6, <<"Bioestadistica y epidemiologia">>, <<>>),
    Course("Procesos de interaccion fisioterapeutica II", 4, 6, <<"Evaluacion y diagnostico fisioterapeutico II">>, <<>>),
    Course("Practica formativa en Salud Publica", 5, 6, <<"Desarrollo motor humano", "Fundamentos de salud publica", "Evaluacion y diagnostico fisioterapeutico II">>, <<>>),
    Course("Educacion en salud y programas", 2, 6, <<>>, <<"Practica formativa en Salud Publica">>),
    Course("Investigacion II", 2, 7, <<"Investigacion I">>, <<>>),
    Course("Administracion y gestion de proyectos en fisioterapia", 4, 7, <<>>, <<>>),
    Course("Practica formativa integral I", 9, 7, <<"Procesos de interaccion fisioterapeutica II", "Practica formativa en Salud Publica", "Tecnologia en fisioterapia", "Ingles 5">>, <<>>),
    Course("Profundizacion I", 4, 7, <<"Practica formativa en Salud Publica">>, <<>>),
    Course("Research seminar III", 2, 8, <<"Investigacion II">>, <<>>),
    Course("Practica formativa integral II", 9, 8, <<"Practica formativa integral I">>, <<>>),
    Course("Profundizacion II", 4, 8, <<"Practica formativa integral I">>, <<>>),
    Course("Espiritu emprendedor", 2, 8, <<>>, <<>>),
    Course("Opcion de grado I", 2, 9, <<"Research seminar III">>, <<>>),
    Course("Practica de profundizacion I", 9, 9, <<"Ingles 7", "Profundizacion I", "Practica formativa integral II">>, <<>>),
    Course("Electiva 1", 2, 9, <<>>, <<>>),
    Course("Electiva 2", 2, 9, <<>>, <<>>),
    Course("Opcion de grado II", 2, 10, <<"Opcion de grado I">>, <<>>),
    Course("Practica de profundizacion II", 9, 10, <<"Profundizacion II", "Practica de profundizacion I">>, <<>>),
    Course("Electiva 3", 2, 10, <<>>, <<>>),
    Course("Electiva 4", 2, 10, <<>>, <<>>),
    Course("Ingles 1", 2, 1, <<>>, <<>>),
    Course("Ingles 2", 3, 2, <<"Ingles 1">>, <<>>),
    Course("Ingles 3", 3, 3, <<"Ingles 1", "Ingles 2">>, <<>>),
    Course("Ingles 4", 3, 4, <<"Ingles 1", "Ingles 2", "Ingles 3">>, <<>>),
    Course("Ingles 5", 3, 5, <<"Ingles 1", "Ingles 2", "Ingles 3", "Ingles 4">>, <<>>),
    Course("Ingles 6", 3, 6, <<"Ingles 1", "Ingles 2", "Ingles 3", "Ingles 4", "Ingles 5">>, <<>>),
    Course("Ingles 7", 3, 7, <<"Ingles 1", "Ingles 2", "Ingles 3", "Ingles 4", "Ingles 5", "Ingles 6">>, <<>>),
    Course("Core Curriculum Persona y Cultura I", 2, 2, <<>>, <<>>),
    Course("Core Curriculum Persona y Cultura II", 2, 3, <<"Core Curriculum Persona y Cultura I">>, <<>>),
    Course("Core Curriculum Persona y Cultura III", 2, 4, <<"Core Curriculum Persona y Cultura I", "Core Curriculum Persona y Cultura II">>, <<>>),
    Course("Core Curriculum Persona y Cultura IV", 2, 5, <<"Core Curriculum Persona y Cultura I", "Core Curriculum Persona y Cultura II", "Core Curriculum Persona y Cultura III">>, <<>>),
    Course("Core Curriculum Persona y Cultura V", 3, 6, <<"Core Curriculum Persona y Cultura I", "Core Curriculum Persona y Cultura II", "Core Curriculum Persona y Cultura III", "Core Curriculum Persona y Cultura IV">>, <<>>)
  >>

enfermeria_courses ==
  <<
    Course("Competencias Idiomaticas Basicas", 2, 1, <<>>, <<>>),
    Course("Ingles 1", 2, 1, <<>>, <<>>),
    Course("Morfofisiologia I", 6, 1, <<>>, <<>>),
    Course("Ciencias Basicas", 6, 1, <<>>, <<>>),
    Course("Naturaleza del Cuidado", 2, 1, <<>>, <<>>),
    Course("Core Curriculum Persona y Cultura I", 2, 2, <<>>, <<>>),
    Course("Ingles 2", 3, 2, <<"Ingles 1">>, <<>>),
    Course("Morfofisiologia II", 6, 2, <<"Morfofisiologia I", "Ciencias Basicas">>, <<>>),
    Course("Fundamentacion del Cuidado", 4, 2, <<"Naturaleza del Cuidado", "Ciencias Basicas", "Morfofisiologia I">>, <<>>),
    Course("Desarrollo Teorico de Enfermeria", 3, 2, <<>>, <<>>),
    Course("Microbiologia", 2, 2, <<"Ciencias Basicas">>, <<>>),
    Course("Core Curriculum Persona y Cultura II", 2, 3, <<"Core Curriculum Persona y Cultura I">>, <<>>),
    Course("Ingles 3", 3, 3, <<"Ingles 1", "Ingles 2">>, <<>>),
    Course("Fisiopatologia", 3, 3, <<"Morfofisiologia II">>, <<"Semiologia">>),
    Course("Psicologia del Aprendizaje", 2, 3, <<>>, <<>>),
    Course("Semiologia", 3, 3, <<"Fundamentacion del Cuidado", "Morfofisiologia II">>, <<>>),
    Course("Embriologia y Genetica", 2, 3, <<>>, <<>>),
    Course("Cuidado del Adulto I", 6, 3, <<"Fundamentacion del Cuidado", "Morfofisiologia II">>, <<"Fisiopatologia">>),
    Course("Core Curriculum Persona y Cultura III", 2, 4, <<"Core Curriculum Persona y Cultura I", "Core Curriculum Persona y Cultura II">>, <<>>),
    Course("Ingles 4", 3, 4, <<"Ingles 1", "Ingles 2", "Ingles 3">>, <<>>),
    Course("Precalculo", 2, 4, <<>>, <<>>),
    Course("Competencias Basicas Digitales", 3, 4, <<>>, <<>>),
    Course("Psicologia del Desarrollo", 3, 4, <<"Psicologia del Aprendizaje">>, <<>>),
    Course("Farmacologia I", 2, 4, <<"Microbiologia">>, <<>>),
    Course("Cuidado del Adulto II", 7, 4, <<"Fisiopatologia", "Cuidado del Adulto I", "Farmacologia I">>, <<>>),
    Course("Core Curriculum Persona y Cultura IV", 2, 5, <<"Core Curriculum Persona y Cultura I", "Core Curriculum Persona y Cultura II", "Core Curriculum Persona y Cultura III">>, <<>>),
    Course("Ingles 5", 3, 5, <<"Ingles 1", "Ingles 2", "Ingles 3", "Ingles 4">>, <<>>),
    Course("Bioestadistica y Epidemiologia", 2, 5, <<"Precalculo">>, <<>>),
    Course("Teoria del Servicio y de la Calidad", 3, 5, <<>>, <<>>),
    Course("Farmacologia II", 2, 5, <<"Farmacologia I">>, <<>>),
    Course("Cuidado del Adulto III", 7, 5, <<"Cuidado del Adulto II", "Farmacologia I", "Ingles 3">>, <<"Farmacologia II">>),
    Course("Electiva I", 2, 5, <<>>, <<>>),
    Course("Core Curriculum Persona y Cultura V", 3, 6, <<"Core Curriculum Persona y Cultura I", "Core Curriculum Persona y Cultura II", "Core Curriculum Persona y Cultura III", "Core Curriculum Persona y Cultura IV">>, <<>>),
    Course("Ingles 6", 3, 6, <<"Ingles 1", "Ingles 2", "Ingles 3", "Ingles 4", "Ingles 5">>, <<>>),
    Course("Investigacion I", 2, 6, <<"Bioestadistica y Epidemiologia">>, <<>>),
    Course("Farmacologia III", 2, 6, <<"Farmacologia II">>, <<>>),
    Course("Cuidado de la Mujer y Neonato", 9, 6, <<"Cuidado del Adulto III", "Embriologia y Genetica">>, <<"Farmacologia III">>),
    Course("Ingles 7", 3, 7, <<"Ingles 1", "Ingles 2", "Ingles 3", "Ingles 4", "Ingles 5", "Ingles 6">>, <<>>),
    Course("Investigacion II", 2, 7, <<"Investigacion I">>, <<>>),
    Course("Gestion Humana", 3, 7, <<>>, <<>>),
    Course("Cuidado al Nino y al Adolescente", 9, 7, <<"Cuidado del Adulto III", "Farmacologia III", "Ingles 5">>, <<>>),
    Course("Deontologia de Enfermeria", 1, 7, <<>>, <<>>),
    Course("Electiva II", 2, 7, <<>>, <<>>),
    Course("Research Seminar III", 2, 8, <<"Investigacion II">>, <<>>),
    Course("Educacion en Salud y Programas", 2, 8, <<>>, <<>>),
    Course("Gestion de Calidad en el Servicio", 3, 8, <<>>, <<>>),
    Course("Contabilidad Financiera", 3, 8, <<>>, <<>>),
    Course("Salud Mental y Psiquiatria", 6, 8, <<"Cuidado del Adulto III", "Farmacologia III", "Cuidado al Nino y al Adolescente">>, <<>>),
    Course("Opcion de Grado I", 2, 9, <<"Research Seminar III">>, <<>>),
    Course("Gestion del Cuidado I", 13, 9, <<"Ingles 7", "Cuidado de la Mujer y Neonato", "Cuidado al Nino y al Adolescente", "Salud Mental y Psiquiatria">>, <<>>),
    Course("Electiva III", 2, 9, <<>>, <<>>),
    Course("Opcion de Grado II", 2, 10, <<"Opcion de Grado I">>, <<>>),
    Course("Gestion del Cuidado II", 13, 10, <<"Gestion del Cuidado I">>, <<>>)
  >>
credits_per_semester_fisioterapia == <<19, 18, 19, 18, 18, 19, 22, 17, 15, 15>>

credits_per_semester_enfermeria == <<18, 20, 21, 22, 21, 19, 20, 16, 17, 15>>

calculate_semester_fisioterapia(credits) ==
  IF credits <= 13 THEN 1
  ELSE IF credits <= 31 THEN 2
  ELSE IF credits <= 50 THEN 3
  ELSE IF credits <= 68 THEN 4
  ELSE IF credits <= 86 THEN 5
  ELSE IF credits <= 105 THEN 6
  ELSE IF credits <= 127 THEN 7
  ELSE IF credits <= 144 THEN 8
  ELSE IF credits <= 159 THEN 9
  ELSE 10

calculate_semester_enfermeria(credits) ==
  IF credits <= 12 THEN 1
  ELSE IF credits <= 32 THEN 2
  ELSE IF credits <= 53 THEN 3
  ELSE IF credits <= 75 THEN 4
  ELSE IF credits <= 96 THEN 5
  ELSE IF credits <= 115 THEN 6
  ELSE IF credits <= 135 THEN 7
  ELSE IF credits <= 151 THEN 8
  ELSE IF credits <= 168 THEN 9
  ELSE 10

\* ------------------------------------------------------------------------
\* Helpers for Python lists, dicts and sets
\* ------------------------------------------------------------------------

Range(s) == {s[i] : i \in 1..Len(s)}

Max(a, b) == IF a >= b THEN a ELSE b

Min(a, b) == IF a <= b THEN a ELSE b

\* dict.get(key, default) on a capacity table {1: n1, ..., 10: n10}
TableGet(table, key, default) ==
  IF key \in DOMAIN table THEN table[key] ELSE default

\* "v = ...; body": body(v) with v evaluated once, before body is
with_value(v, body(_)) == CHOOSE r \in {body(x) : x \in {v}} : TRUE

\* "for x in s: acc = step(acc, x)".  The list is folded by halves, the left
\* half before the right one, which visits the elements in list order and
\* keeps the evaluation shallow.
RECURSIVE fold_range(_, _, _, _, _)
fold_range(step(_, _), s, lo, hi, acc) ==
  IF lo > hi THEN acc
  ELSE IF lo = hi THEN step(acc, s[lo])
  ELSE with_value((lo + hi) \div 2, LAMBDA mid :
         with_value(fold_range(step, s, lo, mid, acc),
                    LAMBDA left : fold_range(step, s, mid + 1, hi, left)))

fold(step(_, _), s, acc) ==
  with_value(s, LAMBDA list : fold_range(step, list, 1, Len(list), acc))

\* sum(f[x] for x in s), duplicates of the list counted each time
SumSeq(f, s) == with_value(f, LAMBDA weight : fold(LAMBDA total, x : total + weight[x], s, 0))

\* list.insert(0, x)
InsertFront(s, x) == <<x>> \o s

\* ------------------------------------------------------------------------
\* curriculum.py: build_curriculum_graph
\* ------------------------------------------------------------------------

\* The graph value: nodes in insertion order, the attributes of the nodes
\* that add_node set, and for every node the list of its incoming edges
\* (source and kind) in insertion order.
\*
\* build_curriculum_graph visits the dataset in declaration order; for each
\* course it calls add_node (the course), then add_edge for every listed
\* prerequisite and then for every listed corequisite.  add_node and add_edge
\* create a node the first time its name is used, so the node order is the
\* order of first mention in that sequence of names, and all edges into a
\* course are added while the course itself is visited.

\* info.get(key, default)
info_get(info, key, default) == IF key \in DOMAIN info THEN info[key] ELSE default

\* The names one dataset entry mentions, in the order the loop body uses them
mentions_of(info) ==
  <<info.name>> \o info_get(info, "prerequisites", <<>>)
                \o info_get(info, "corerequisites", <<>>)

all_mentions(_courses) ==
  fold(LAMBDA names, info : names \o mentions_of(info), _courses, <<>>)

\* The elements of s at the positions in idx, in increasing position
pick(s, idx) ==
  with_value(idx, LAMBDA positions :
    [r \in 1..Cardinality(positions) |->
       s[CHOOSE i \in positions : Cardinality({j \in positions : j <= i}) = r]])

\* s without repetitions, every element at its first place
first_occurrences(s) ==
  pick(s, {i \in 1..Len(s) : \A j \in 1..(i - 1) : s[j] # s[i]})

\* The edges G.add_edge adds into one course: an edge repeated for the same
\* source keeps its place and takes the kind given last.
incoming_edges(info) ==
  LET prerequisites == info_get(info, "prerequisites", <<>>)
      sources == prerequisites \o info_get(info, "corerequisites", <<>>)
      kind(i) == IF i <= Len(prerequisites) THEN "prerequisite"
                 ELSE "corequisite"
      firsts == {i \in 1..Len(sources) : \A j \in 1..(i - 1) : sources[j] # sources[i]}
      last(i) == CHOOSE k \in 1..Len(sources) :
                   /\ sources[k] = sources[i]
                   /\ \A m \in (k + 1)..Len(sources) : sources[m] # sources[i]
      edges == [i \in 1..Len(sources) |-> [node |-> sources[i], type |-> kind(last(i))]]
  IN  pick(edges, firsts)

build_curriculum_graph(_courses) ==
  LET names == {_courses[i].name : i \in 1..Len(_courses)}
      \* a dict holds one entry per name
      entry(n) == _courses[CHOOSE i \in 1..Len(_courses) : _courses[i].name = n]
      nodes == first_occurrences(all_mentions(_courses))
  IN  [nodes |-> nodes,
       attrs |-> [n \in names |->
                    [credits |-> info_get(entry(n), "credits", 0),
                     semester |-> info_get(entry(n), "semester", 0)]],
       pred |-> [n \in Range(nodes) |->
                    IF n \in names THEN incoming_edges(entry(n)) ELSE <<>>]]

fisioterapia_G == build_curriculum_graph(fisioterapia_courses)

enfermeria_G == build_curriculum_graph(enfermeria_courses)

\* list(_G.predecessors(course))
predecessors(G, course) ==
  [i \in 1..Len(G.pred[course]) |-> G.pred[course][i].node]

\* _G[p][course].get("type")
edge_type(G, p, course) ==
  LET e == CHOOSE x \in Range(G.pred[course]) : x.node = p IN e.type

node_credits(G, c) == G.attrs[c].credits

node_semester(G, c) == G.attrs[c].semester

\* ------------------------------------------------------------------------
\* curriculum.py: get_available_subjects, get_intersemestral_options
\* ------------------------------------------------------------------------

InglesNames ==
  {"Ingles 1", "Ingles 2", "Ingles 3", "Ingles 4", "Ingles 5", "Ingles 6",
   "Ingles 7"}

CoreCurriculumNames ==
  {"Core Curriculum Persona y Cultura I", "Core Curriculum Persona y Cultura II",
   "Core Curriculum Persona y Cultura III", "Core Curriculum Persona y Cultura IV",
   "Core Curriculum Persona y Cultura V"}

is_mandatory_name(name) == name \in InglesNames \/ name \in CoreCurriculumNames

\* Variant: one approved prerequisite is taken to be enough.
prereqs_approved_some(prereqs, approved) ==
  prereqs = <<>> \/ \E k \in 1..Len(prereqs) : prereqs[k] \in approved

\* "for pr in prereqs: if pr not in approved: ok_prereqs = False"
prereqs_approved(prereqs, approved) ==
  \A k \in 1..Len(prereqs) : prereqs[k] \in approved

\* Variant: the corequisites are not looked at.
coreqs_satisfied_unchecked(coreqs, approved, available) == TRUE

\* "for cr in coreqs: if (cr not in approved) and (cr not in available): ..."
coreqs_satisfied(coreqs, approved, available) ==
  \A k \in 1..Len(coreqs) :
     coreqs[k] \in approved \/ coreqs[k] \in Range(available)

\* Variant: the lookahead is two semesters.
in_window_two_ahead(course_sem, current_semester) == course_sem <= current_semester + 2

\* "elif course_sem <= current_semester + 1"
in_window(course_sem, current_semester) == course_sem <= current_semester + 1

\* The body of "for course in _G.nodes", with the list built so far
available_step(_G, approved, current_semester, available, course) ==
  LET preds == predecessors(_G, course)
      prereqs == SelectSeq(preds, LAMBDA p : edge_type(_G, p, course) # "corequisite")
      coreqs == SelectSeq(preds, LAMBDA p : edge_type(_G, p, course) = "corequisite")
      course_sem == node_semester(_G, course)
  IN  IF course \in approved THEN available
      ELSE IF ~prereqs_approved(prereqs, approved) THEN available
      ELSE IF ~coreqs_satisfied(coreqs, approved, available) THEN available
      ELSE IF is_mandatory_name(course) /\ course_sem <= current_semester
           THEN InsertFront(available, course)
      ELSE IF in_window(course_sem, current_semester)
           THEN Append(available, course)
      ELSE available

get_available_subjects(_G, approved_subjects, current_semester) ==
  with_value(Range(approved_subjects), LAMBDA approved :
    fold(LAMBDA available, course :
           available_step(_G, approved, current_semester, available, course),
         _G.nodes, <<>>))

intersemestral_name_ok(course) == course \in InglesNames \/ course = "Precalculo"

get_intersemestral_options(_G, approved_subjects) ==
  with_value(Range(approved_subjects), LAMBDA approved :
    LET ok(course) ==
          /\ intersemestral_name_ok(course)
          /\ course \notin approved
          /\ \A k \in 1..Len(_G.pred[course]) : _G.pred[course][k].node \in approved
    IN  SelectSeq(_G.nodes, ok))

\* ------------------------------------------------------------------------
\* curriculum.py: recommend_subjects
\* ------------------------------------------------------------------------

\* Python's None for an absent intensive-session choice (no course has it as name)
None == "None"

\* The sort key (-credits, semester) of optional.sort: a sorts no later than b
key_le(G, a, b) ==
  \/ node_credits(G, a) > node_credits(G, b)
  \/ /\ node_credits(G, a) = node_credits(G, b)
     /\ node_semester(G, a) <= node_semester(G, b)

\* list.sort is stable: in a list sorted by key, x comes behind every element
\* whose key is not larger (they are a prefix of the list).
insert_sorted(G, sorted, x) ==
  with_value(Cardinality({i \in 1..Len(sorted) : key_le(G, sorted[i], x)}), LAMBDA k :
    SubSeq(sorted, 1, k) \o <<x>> \o SubSeq(sorted, k + 1, Len(sorted)))

\* optional.sort(key=lambda s: (-credits, semester))
sort_optional(G, optional) ==
  fold(LAMBDA sorted, x : insert_sorted(G, sorted, x), optional, <<>>)

\* The test of both packing loops: does a course of c credits still fit?
\* Variant: the load has to stay strictly below the limit.
fits_strict(total_credits, c, credit_limit) == total_credits + c < credit_limit

fits(total_credits, c, credit_limit) == total_credits + c <= credit_limit

\* The body of both packing loops: "if total_credits + c <= credit_limit:
\* selected_subjects.append(s); total_credits += c"
take_if_fits(G, credit_limit, acc, s) ==
  LET c == node_credits(G, s)
  IN  IF fits(acc.total_credits, c, credit_limit)
      THEN [selected_subjects |-> Append(acc.selected_subjects, s),
            total_credits |-> acc.total_credits + c]
      ELSE acc

\* for s in candidates: ...
take_fitting(G, candidates, credit_limit, acc) ==
  fold(LAMBDA a, s : take_if_fits(G, credit_limit, a, s), candidates, acc)

\* Variant: the reduced load is half the table entry, without the credit
\* taken off.
credit_limit_of_plain_half(current_semester, credits_per_semester, is_half_time) ==
  LET effective_semester == Min(current_semester, 10)
      credit_limit == TableGet(credits_per_semester, effective_semester, 0)
  IN  IF is_half_time THEN credit_limit \div 2 ELSE credit_limit

\* effective_semester, credit_limit of recommend_subjects
credit_limit_of(current_semester, credits_per_semester, is_half_time) ==
  LET effective_semester == Min(current_semester, 10)
      credit_limit == TableGet(credits_per_semester, effective_semester, 0)
  IN  IF is_half_time THEN Max(0, (credit_limit \div 2) - 1) ELSE credit_limit

\* The intensive-session step: the chosen course joins the selection when it
\* is a node of the graph and not selected already, with its credits counted
\* apart.
add_intersemestral(G, selected_subjects, intersemestral) ==
  IF intersemestral # None
     /\ intersemestral \notin Range(selected_subjects)
     /\ intersemestral \in Range(G.nodes)
  THEN [selected_subjects |-> Append(selected_subjects, intersemestral),
        intersemestral_credits |-> node_credits(G, intersemestral)]
  ELSE [selected_subjects |-> selected_subjects, intersemestral_credits |-> 0]

semester_cost_of(is_half_time, intersemestral) ==
  (IF is_half_time THEN 5000000 ELSE 10000000)
    + (IF intersemestral # None THEN 1500000 ELSE 0)

\* Variant: no name is recognised as mandatory.
mandatory_of_none(available_subjects) == <<>>

\* mandatory = [s for s in available_subjects if "Inglés" in s or ...]
mandatory_of(available_subjects) == SelectSeq(available_subjects, is_mandatory_name)

\* The driver always passes available_subjects, so the list is a parameter here.
recommend_subjects(G, approved_subjects, current_semester, credits_per_semester, is_half_time, intersemestral, available_subjects) ==
  LET credit_limit == credit_limit_of(current_semester, credits_per_semester, is_half_time)
  IN
  with_value(mandatory_of(available_subjects), LAMBDA mandatory :
  with_value(sort_optional(G,
               SelectSeq(available_subjects, LAMBDA s : s \notin Range(mandatory))),
             LAMBDA optional :
  with_value(take_fitting(G, optional, credit_limit,
               take_fitting(G, mandatory, credit_limit,
                            [selected_subjects |-> <<>>, total_credits |-> 0])),
             LAMBDA packed :
  with_value(add_intersemestral(G, packed.selected_subjects, intersemestral),
             LAMBDA withInter :
    [subjects |-> withInter.selected_subjects,
     credits |-> packed.total_credits,
     intersemestral_credits |-> withInter.intersemestral_credits,
     semester_cost |-> semester_cost_of(is_half_time, intersemestral)]))))

\* ------------------------------------------------------------------------
\* curriculum.py: estimate_remaining_semesters
\* ------------------------------------------------------------------------

\* ceil(a / b) for a >= 0, b > 0
CeilDiv(a, b) == (a + b - 1) \div b

\* G.nodes[c] for a name that is no node of the graph raises KeyError
lookup_raises(G, names) == \E i \in 1..Len(names) : names[i] \notin Range(G.nodes)

\* Variant: the generator without its "if c in G.nodes" filter.
summed_names_unfiltered(G, approved_subjects) == approved_subjects

\* "for c in approved_subjects if c in G.nodes": the names whose credits are
\* looked up
summed_names(G, approved_subjects) ==
  SelectSeq(approved_subjects, LAMBDA c : c \in Range(G.nodes))

\* sum(G.nodes[c]["credits"] for c in approved_subjects if c in G.nodes)
approved_credit_sum(G, approved_subjects) ==
  SumSeq([c \in Range(G.nodes) |-> node_credits(G, c)],
         summed_names(G, approved_subjects))

\* Variant: the operands of the subtraction swapped.
remaining_credits_swapped(G, approved_subjects, total_credits_required) ==
  Max(0, approved_credit_sum(G, approved_subjects) - total_credits_required)

\* remaining_credits = max(0, total_credits_required - approved_sum)
remaining_credits_of(G, approved_subjects, total_credits_required) ==
  Max(0, total_credits_required - approved_credit_sum(G, approved_subjects))

\* The average load is the rational tableSum / 10; under reduced load it is
\* max(1.0, avg / 2.0 - 1.0) = max(1, (tableSum - 20) / 20).  The code divides
\* in double precision; for the capacity tables used here (sums 180, 189
\* and 60) math.ceil of the double quotient equals the exact ceiling for every
\* remaining_credits in 0..189.
estimate_remaining_semesters(G, approved_subjects, total_credits_required, credits_per_semester, is_half_time) ==
  with_value(remaining_credits_of(G, approved_subjects, total_credits_required),
             LAMBDA remaining_credits :
  with_value(SumSeq([s \in 1..10 |-> TableGet(credits_per_semester, s, 0)],
                    [s \in 1..10 |-> s]),
             LAMBDA tableSum :
  LET num == IF is_half_time THEN Max(20, tableSum - 20) ELSE tableSum
      den == IF is_half_time THEN 20 ELSE 10
  IN  IF num <= 0 THEN Max(1, remaining_credits)
      ELSE Max(1, CeilDiv(remaining_credits * den, num))))


\* ------------------------------------------------------------------------
\* curriculum.py: _deepcopy_semester_options, _build_capacity_by_semester,
\* _milp_generate_plan
\* ------------------------------------------------------------------------

\* The options of a semester the map has no entry for: every opts.get falls
\* back to its default.
NoOptions == [is_half_time |-> FALSE, extra_credits |-> 0, intersemestral |-> None]

\* opts = semester_options.get(s, {}) if semester_options else {}
options_of(semester_options, s) ==
  IF s \in DOMAIN semester_options THEN semester_options[s] ELSE NoOptions

\* {k: dict(v) for k, v in semester_options.items()}
_deepcopy_semester_options(semester_options) ==
  [k \in DOMAIN semester_options |-> semester_options[k]]

\* capacities[s] for s in semester_range
_build_capacity_by_semester(credits_per_semester, semester_options, semester_range) ==
  [s \in semester_range |->
     LET base == TableGet(credits_per_semester, Min(s, 10), 0)
         opts == options_of(semester_options, s)
         cap == IF opts.is_half_time THEN Max(0, (base \div 2) - 1) ELSE base
     IN  Max(0, cap + opts.extra_credits)]

\* remaining_courses = [c for c in G.nodes if c not in approved]
remaining_courses_of(G, approved_subjects) ==
  SelectSeq(G.nodes, LAMBDA c : c \notin Range(approved_subjects))

\* sum(G.nodes[c]["credits"] for c in approved if c in G.nodes), approved a set
approved_set_credits(G, approved_subjects) ==
  SumSeq([c \in Range(G.nodes) |-> node_credits(G, c)],
         SelectSeq(G.nodes, LAMBDA c : c \in Range(approved_subjects)))

\* The values of the x[c, s] that put every remaining course in the first
\* semester it has a variable for: x[c, s] exists for s >= c_sem, s in semesters.
earliest_assignment(G, remaining_courses, current_semester) ==
  [c \in Range(remaining_courses) |-> Max(node_semester(G, c), current_semester)]

\* sum of the credits of the courses an assignment puts in semester s
assigned_credits(G, remaining_courses, assignment, s) ==
  SumSeq([c \in Range(G.nodes) |-> node_credits(G, c)],
         SelectSeq(remaining_courses, LAMBDA c : assignment[c] = s))

\* The constraints of the problem on an assignment that takes every remaining
\* course: capacity per semester, prerequisites strictly earlier or approved,
\* corequisites not later or approved, and the credit requirement.
milp_constraints_hold(G, approved_subjects, remaining_courses, assignment, capacities, total_required) ==
  /\ \A c \in Range(remaining_courses) : assignment[c] \in DOMAIN capacities
  /\ \A s \in DOMAIN capacities :
        assigned_credits(G, remaining_courses, assignment, s) <= capacities[s]
  /\ \A c \in Range(remaining_courses) :
        \A p \in Range(predecessors(G, c)) :
           \/ p \in Range(approved_subjects)
           \/ IF edge_type(G, p, c) # "corequisite"
              THEN assignment[p] <= assignment[c] - 1
              ELSE assignment[p] <= assignment[c]
  /\ approved_set_credits(G, approved_subjects)
       + SumSeq([c \in Range(G.nodes) |-> node_credits(G, c)], remaining_courses)
       >= total_required

\* No assignment can meet the credit requirement: every remaining course
\* together with the approved ones falls short of it, or the capacities of
\* the semesters left add up to less than the credits still to be earned.
milp_infeasible(G, approved_subjects, remaining_courses, capacities, total_required) ==
  LET approved_credits == approved_set_credits(G, approved_subjects)
  IN  \/ approved_credits
           + SumSeq([c \in Range(G.nodes) |-> node_credits(G, c)], remaining_courses)
           < total_required
      \/ SumSeq(capacities, pick(<<1, 2, 3, 4, 5, 6, 7, 8, 9, 10>>, DOMAIN capacities))
           < total_required - approved_credits

\* One record of the extraction loop "for s in semesters", for a semester
\* with at least one course
milp_record(G, semester_options, s, subjects) ==
  LET opts == options_of(semester_options, s)
      inter == opts.intersemestral
  IN  [semester |-> s,
       repetition |-> 1,
       subjects |-> subjects,
       credits |-> SumSeq([c \in Range(G.nodes) |-> node_credits(G, c)], subjects),
       intersemestral_credits |->
         IF inter \in Range(G.nodes) THEN node_credits(G, inter) ELSE 0,
       is_half_time |-> opts.is_half_time,
       extra_credits |-> opts.extra_credits,
       intersemestral |-> inter,
       cost |-> semester_cost_of(opts.is_half_time, inter)]

\* plan of the extraction loop: the semesters in ascending order, those without
\* a course skipped
milp_plan_of(G, semester_options, remaining_courses, assignment, current_semester) ==
  with_value(pick(<<1, 2, 3, 4, 5, 6, 7, 8, 9, 10>>,
                  {s \in current_semester..10 :
                     \E c \in Range(remaining_courses) : assignment[c] = s}),
             LAMBDA semesters :
    [i \in 1..Len(semesters) |->
       milp_record(G, semester_options, semesters[i],
                   SelectSeq(remaining_courses, LAMBDA c : assignment[c] = semesters[i]))])

\* total_cost += sem_cost over the records
milp_total_cost(milp_plan) == SumSeq([i \in 1..Len(milp_plan) |-> milp_plan[i].cost], [i \in 1..Len(milp_plan) |-> i])
\* ------------------------------------------------------------------------
\* curriculum.py: generate_full_plan (heuristic driver)
\* ------------------------------------------------------------------------

total_credits_required_of(prog) == IF prog = "Fisioterapia" THEN 180 ELSE 189

\* _calculate_semester, the step function the caller passes for the program
calculate_semester(prog, credits) ==
  IF prog = "Fisioterapia" THEN calculate_semester_fisioterapia(credits)
  ELSE calculate_semester_enfermeria(credits)

\* max(intersemestral_options, key=credits / 1500000, default=None): the
\* first option of the largest credit weight
best_intersemestral_of(_G, intersemestral_options) ==
  IF intersemestral_options = <<>> THEN None
  ELSE LET best == CHOOSE i \in 1..Len(intersemestral_options) :
                     /\ \A j \in 1..Len(intersemestral_options) :
                          node_credits(_G, intersemestral_options[j])
                            <= node_credits(_G, intersemestral_options[i])
                     /\ \A j \in 1..(i - 1) :
                          node_credits(_G, intersemestral_options[j])
                            < node_credits(_G, intersemestral_options[i])
       IN  intersemestral_options[best]

\* Variant: the intensive course is taken under either load.
inter_for_any_load(is_half_time, best_intersemestral) == best_intersemestral

\* inter = best_intersemestral if is_half_time and best_intersemestral else None
inter_for_load(is_half_time, best_intersemestral) ==
  IF is_half_time /\ best_intersemestral # None THEN best_intersemestral ELSE None

\* One pass of "for is_half_time in [False, True]": the configuration and
\* its projected cost.
evaluate_config(_G, approved_local_, current_sem_, _credits_per_semester, required, is_half_time, best_intersemestral, available_subjects) ==
  LET inter == inter_for_load(is_half_time, best_intersemestral)
  IN
  with_value(recommend_subjects(_G, approved_local_, current_sem_, _credits_per_semester,
                                is_half_time, inter, available_subjects),
             LAMBDA r :
  LET temp_approved == IF inter # None
                       THEN Append(approved_local_ \o r.subjects, inter)
                       ELSE approved_local_ \o r.subjects
      remaining_semesters ==
        estimate_remaining_semesters(_G, temp_approved, required,
                                     _credits_per_semester, is_half_time)
  IN  [projected_cost |-> r.semester_cost
         + remaining_semesters * (IF is_half_time THEN 5000000 ELSE 10000000),
       config |-> [subjects |-> r.subjects,
                   credits |-> r.credits,
                   intersemestral_credits |-> r.intersemestral_credits,
                   semester_cost |-> r.semester_cost,
                   is_half_time |-> is_half_time,
                   extra_credits |-> 0,
                   intersemestral |-> inter]])

\* best_cost starts at infinity, so the full-load configuration is taken
\* first and the reduced-load one replaces it when strictly cheaper.
cheaper(projected_cost, best_cost) == projected_cost < best_cost

best_config_of(_G, approved_local_, current_sem_, _credits_per_semester, required) ==
  with_value(get_available_subjects(_G, approved_local_, current_sem_),
             LAMBDA available_subjects :
  with_value(get_intersemestral_options(_G, approved_local_),
             LAMBDA intersemestral_options :
  with_value(best_intersemestral_of(_G, intersemestral_options),
             LAMBDA best_intersemestral :
  with_value(evaluate_config(_G, approved_local_, current_sem_, _credits_per_semester,
                             required, FALSE, best_intersemestral, available_subjects),
             LAMBDA full :
  with_value(evaluate_config(_G, approved_local_, current_sem_, _credits_per_semester,
                             required, TRUE, best_intersemestral, available_subjects),
             LAMBDA half :
    IF cheaper(half.projected_cost, full.projected_cost) THEN half.config
    ELSE full.config)))))

\* Variant: every record is numbered as the first term of its level.
repetition_always_first(semester_counts_, current_sem_) == 1

\* "repetition": semester_counts[current_sem], read after the increment
repetition_of(semester_counts_, current_sem_) == semester_counts_[current_sem_]

\* Variant: every recorded term advances the nominal semester by one.
next_semester_one_up(prog, current_sem_, total_credits_local_) ==
  Min(10, current_sem_ + 1)

\* current_sem = _calculate_semester(total_credits_local)
next_semester(prog, current_sem_, total_credits_local_) ==
  calculate_semester(prog, total_credits_local_)

\* Variant: an empty configuration is not taken as a stall.
is_stall_never(best_config) == FALSE

\* "if not best_config or (not subjects and not intersemestral): break"
is_stall(best_config) ==
  best_config.subjects = <<>> /\ best_config.intersemestral = None

\* Variant: the while condition without the credit test.
loop_continues_counter_only(total_credits_local_, required, max_iterations_) ==
  max_iterations_ > 0

\* Variant: the while condition without the iteration counter.
loop_continues_uncapped(total_credits_local_, required, max_iterations_) ==
  total_credits_local_ < required

\* The while condition
loop_continues(total_credits_local_, required, max_iterations_) ==
  total_credits_local_ < required /\ max_iterations_ > 0

\* Variant: the record's cost without the intersemestral surcharge.
semester_record_base_cost(current_sem_, repetition, best_config) ==
  [semester |-> current_sem_,
   repetition |-> repetition,
   subjects |-> best_config.subjects,
   credits |-> best_config.credits,
   intersemestral_credits |-> best_config.intersemestral_credits,
   is_half_time |-> best_config.is_half_time,
   extra_credits |-> best_config.extra_credits,
   intersemestral |-> best_config.intersemestral,
   cost |-> IF best_config.is_half_time THEN 5000000 ELSE 10000000]

\* plan.append({...}) of the heuristic driver
semester_record(current_sem_, repetition, best_config) ==
  [semester |-> current_sem_,
   repetition |-> repetition,
   subjects |-> best_config.subjects,
   credits |-> best_config.credits,
   intersemestral_credits |-> best_config.intersemestral_credits,
   is_half_time |-> best_config.is_half_time,
   extra_credits |-> best_config.extra_credits,
   intersemestral |-> best_config.intersemestral,
   cost |-> best_config.semester_cost]

\* Variant: the subjects of the record are not added to the completed list.
extend_approved_not_extended(approved_local_, best_config) == approved_local_

\* approved_local.extend(subjects); if intersemestral: approved_local.append(it)
extend_approved(approved_local_, best_config) ==
  IF best_config.intersemestral # None
  THEN Append(approved_local_ \o best_config.subjects, best_config.intersemestral)
  ELSE approved_local_ \o best_config.subjects


\* ------------------------------------------------------------------------
\* curriculum.py: generate_full_plan, the MILP attempt
\* ------------------------------------------------------------------------

\* What the process can find when it tries the MILP: the pulp import failed
\* (PULP_AVAILABLE is False); no usable solver is found or the solve raises;
\* the solve ends with an accepted status and no course placed; the solver
\* returns the optimum.
MilpEnvironments == {"pulp_missing", "solver_raises", "solver_empty", "solver_optimal"}

\* _milp_generate_plan with a solver at hand: it raises, or returns the
\* extracted plan with its cost.  With every remaining course needed for the
\* requirement, the optimum of the objective (largest semester used, then
\* the sum of the semesters of the courses) is the earliest assignment
\* whenever that one meets the constraints; when it does not, the solver
\* status is not an accepted one and the function raises.
_milp_generate_plan(env, G, approved_subjects, current_semester, total_required, credits_per_semester, semester_options) ==
  IF env = "solver_raises"
  THEN [kind |-> "raised", plan |-> <<>>, total_cost |-> 0]
  ELSE IF env = "solver_empty"
  THEN [kind |-> "returned", plan |-> <<>>, total_cost |-> 0]
  ELSE
  with_value(remaining_courses_of(G, approved_subjects), LAMBDA remaining_courses :
  with_value(_build_capacity_by_semester(credits_per_semester, semester_options,
                                         current_semester..10),
             LAMBDA capacities :
  with_value(earliest_assignment(G, remaining_courses, current_semester),
             LAMBDA assignment :
    IF milp_constraints_hold(G, approved_subjects, remaining_courses, assignment,
                             capacities, total_required)
    THEN with_value(milp_plan_of(G, semester_options, remaining_courses, assignment,
                                 current_semester),
                    LAMBDA milp_plan :
           [kind |-> "returned", plan |-> milp_plan,
            total_cost |-> milp_total_cost(milp_plan)])
    ELSE [kind |-> "raised", plan |-> <<>>, total_cost |-> 0])))

\* "if PULP_AVAILABLE: try: plan, total_cost = _milp_generate_plan(...)"
milp_attempt(env, _G, approved, current_semester, total_required, _credits_per_semester, semester_options) ==
  IF env = "pulp_missing"
  THEN [kind |-> "skipped", plan |-> <<>>, total_cost |-> 0]
  ELSE _milp_generate_plan(env, _G, approved, current_semester, total_required,
                           _credits_per_semester, semester_options)

\* The solver's answer is determined: the earliest assignment is the optimum,
\* or no assignment exists (the solver reports the problem infeasible).
milp_answer_known(_G, approved, current_semester, total_required, _credits_per_semester, semester_options) ==
  with_value(remaining_courses_of(_G, approved), LAMBDA remaining_courses :
  with_value(_build_capacity_by_semester(_credits_per_semester, semester_options,
                                         current_semester..10),
             LAMBDA capacities :
  with_value(earliest_assignment(_G, remaining_courses, current_semester),
             LAMBDA assignment :
    \/ milp_constraints_hold(_G, approved, remaining_courses, assignment,
                             capacities, total_required)
    \/ milp_infeasible(_G, approved, remaining_courses, capacities, total_required))))

\* Variant: the attempt is made outside the try.
milp_exception_escapes == FALSE

\* "try: ... except Exception as e: st.warning(...)": what the attempt raises
\* is caught.
milp_exception_caught == TRUE

\* ------------------------------------------------------------------------
\* Graph construction and the calls of generate_full_plan as a state machine
\* ------------------------------------------------------------------------

\* Largest number of courses left out of the initial completed set
MaxDropped == 2

\* Number of calls the caller makes
NumCalls == 2

\* max_iterations = 30
MaxIterations == 30

\* st.session_state.last_plan_time = None
NoTime == 0

Programs == {"Fisioterapia", "Enfermeria"}

\* A capacity table a caller may pass besides the program's own one: every
\* term of credits_per_semester_fisioterapia lowered by 12 credits.
credits_per_semester_small == <<7, 6, 7, 6, 6, 7, 10, 5, 3, 3>>

capacity_tables_of(prog) ==
  {IF prog = "Fisioterapia" THEN credits_per_semester_fisioterapia
   ELSE credits_per_semester_enfermeria,
   credits_per_semester_small}

\* Courses the student may have left open although later ones are completed
droppable_of(prog) ==
  IF prog = "Fisioterapia"
  THEN {"Precalculo", "Biomecanica", "Practica formativa en Salud Publica",
        "Educacion en salud y programas", "Electiva 3"}
  ELSE {"Precalculo", "Cuidado del Adulto I", "Fisiopatologia",
        "Salud Mental y Psiquiatria", "Electiva III"}

\* The completed courses the caller passes: every course of nominal semester
\* at most level, except the dropped ones, in graph order.
completed_up_to(graph, level, dropped) ==
  SelectSeq(graph.nodes,
            LAMBDA c : node_semester(graph, c) <= level /\ c \notin dropped)

\* Datasets build_curriculum_graph may be given besides the two of
\* courses_data.py: an entry without "credits", an entry without "semester",
\* and two courses that are each other's prerequisite.
malformed_courses(kind) ==
  IF kind = "missing_credits"
  THEN <<[name |-> "A", semester |-> 1],
         [name |-> "B", credits |-> 3, semester |-> 2, prerequisites |-> <<"A">>]>>
  ELSE IF kind = "missing_semester"
  THEN <<[name |-> "A", credits |-> 3],
         [name |-> "B", credits |-> 3, semester |-> 2, prerequisites |-> <<"A">>]>>
  ELSE <<[name |-> "A", credits |-> 3, semester |-> 1, prerequisites |-> <<"B">>],
         [name |-> "B", credits |-> 3, semester |-> 1, prerequisites |-> <<"A">>]>>

MalformedKinds == {"missing_credits", "missing_semester", "prerequisite_cycle"}

\* A well-formed dataset in which a course of the intensive category lists a
\* corequisite.
intensive_corequisite_courses ==
  <<Course("Ingles 1", 2, 1, <<>>, <<>>),
    Course("Fonetica", 2, 2, <<>>, <<>>),
    Course("Ingles 2", 2, 2, <<"Ingles 1">>, <<"Fonetica">>)>>

OtherKinds == {"intensive_corequisite"}

dataset_of(kind) ==
  IF kind \in MalformedKinds THEN malformed_courses(kind)
  ELSE intensive_corequisite_courses

\* The override maps a caller may pass: none, or one entry for the semester
\* the student is in: reduced load, two extra credits, or one of the
\* intensive courses open to the student (the choices app.py offers), with
\* and without reduced load.
override_maps_of(semester, intersemestral_options) ==
  {<<>>,
   semester :> [is_half_time |-> TRUE, extra_credits |-> 0, intersemestral |-> None],
   semester :> [is_half_time |-> FALSE, extra_credits |-> 2, intersemestral |-> None]}
  \cup
  {semester :> [is_half_time |-> h, extra_credits |-> 0, intersemestral |-> c] :
     h \in BOOLEAN, c \in Range(intersemestral_options)}

\* How the completed list of a later call relates to the list of the first
\* call: the same list, the list reversed, the list with its last name
\* repeated, or the list with two names that are no course of the dataset.
Variants == {"same", "reordered", "repeated", "unknown_names"}

Reverse(s) == [i \in 1..Len(s) |-> s[Len(s) + 1 - i]]

variant_of(list, variant) ==
  IF variant = "reordered" THEN Reverse(list)
  ELSE IF variant = "repeated" THEN list \o <<list[Len(list)]>>
  ELSE IF variant = "unknown_names"
  THEN <<"Materia desconocida">> \o list \o <<"Otra materia">>
  ELSE list

VARIABLES
  courses,              \* the dataset given to build_curriculum_graph
  graph_size,           \* the number of nodes of the graph build_curriculum_graph returned
  graph_cache,          \* st.cache_resource: the dataset whose graph the cache holds
  program,              \* argument program
  credits_per_semester, \* argument _credits_per_semester
  approved_subjects,    \* argument approved_subjects, the caller's list
  semester_options,     \* argument semester_options, the caller's map
  milp_env,             \* what the MILP attempt finds in this process
  fault_at_call,        \* the call in which the runtime raises an exception (0: none)
  session,              \* st.session_state: plan, total_cost, previous_approved_subjects,
                        \* last_plan_time, semester_options
  variant,              \* the completed list of this call against the first call's
  call,                 \* which call of the caller is running
  first_result,         \* (plan, total_cost) returned by the first call
  pc,                   \* "start", "built" / "idle": graph returned ("build_error": raised), "loop", "done", "stored"
  exit_path,            \* how the call ended: "milp", "complete", "stalled", "cap", "raised"
  plan,
  total_cost,
  approved_local,
  semester_options_local,
  total_credits_local,
  current_sem,
  semester_counts,
  max_iterations

inputs == <<courses, program, credits_per_semester, semester_options, milp_env,
            fault_at_call>>

locals == <<plan, total_cost, approved_local, semester_options_local,
            total_credits_local, current_sem, semester_counts, max_iterations>>

vars == <<courses, graph_size, graph_cache, program, credits_per_semester, approved_subjects,
          semester_options, milp_env, fault_at_call, session, variant, call,
          first_result, pc, exit_path, plan, total_cost, approved_local, semester_options_local,
          total_credits_local, current_sem, semester_counts, max_iterations>>

\* argument _G: the graph the caller built from the program's dataset
G == IF program = "Fisioterapia" THEN fisioterapia_G ELSE enfermeria_G

required == total_credits_required_of(program)

\* The program's own capacity table, the one app.py passes
own_table(prog) ==
  IF prog = "Fisioterapia" THEN credits_per_semester_fisioterapia
  ELSE credits_per_semester_enfermeria

\* Variant: the driver works on the caller's list itself.
caller_list_aliased(caller_list, extended_local) == extended_local

\* approved = list(approved_subjects) and approved_local = list(approved)
\* are copies: extending approved_local leaves the caller's list as it was.
caller_list_after_extend(caller_list, extended_local) == caller_list

\* The local variables before a call
LocalsCleared ==
  /\ plan = <<>>
  /\ total_cost = 0
  /\ approved_local = <<>>
  /\ semester_options_local = <<>>
  /\ total_credits_local = 0
  /\ current_sem = 1
  /\ semester_counts = [s \in 1..10 |-> 0]
  /\ max_iterations = MaxIterations

\* Completed sets with up to MaxDropped courses left open, under the
\* program's table or the small one, no override, pulp not installed
InitHeuristic ==
  /\ courses = "program"
  /\ program \in Programs
  /\ credits_per_semester \in capacity_tables_of(program)
  /\ \E level \in 0..10 :
       \E dropped \in SUBSET droppable_of(program) :
         /\ Cardinality(dropped) <= MaxDropped
         /\ credits_per_semester = credits_per_semester_small
              => (program = "Fisioterapia" /\ dropped = {})
         /\ approved_subjects = completed_up_to(G, level, dropped)
  /\ semester_options = <<>>
  /\ milp_env = "pulp_missing"

\* Whole semesters completed, under the program's table, with an override
\* map for the current semester and a MILP environment
InitOverrides ==
  /\ courses = "program"
  /\ program \in Programs
  /\ credits_per_semester = own_table(program)
  /\ \E level \in 0..10 : approved_subjects = completed_up_to(G, level, {})
  /\ semester_options \in
       override_maps_of(calculate_semester(program, approved_credit_sum(G, approved_subjects)),
                        get_intersemestral_options(G, approved_subjects))
  /\ milp_env \in MilpEnvironments
  /\ milp_env \in {"solver_raises", "solver_empty"} => semester_options = <<>>
  /\ milp_env = "solver_optimal" =>
       milp_answer_known(G, approved_subjects,
                         calculate_semester(program, approved_credit_sum(G, approved_subjects)),
                         required, credits_per_semester, semester_options)

\* Whole semesters completed, no override, pulp not installed; the runtime
\* raises an exception (a MemoryError, say) inside one of the calls of
\* generate_full_plan.
InitFault ==
  /\ courses = "program"
  /\ program \in Programs
  /\ credits_per_semester = own_table(program)
  /\ \E level \in 0..10 : approved_subjects = completed_up_to(G, level, {})
  /\ semester_options = <<>>
  /\ milp_env = "pulp_missing"
  /\ fault_at_call \in 1..NumCalls

\* A dataset other than the two of courses_data.py: only the graph is built
InitMalformed ==
  /\ courses \in MalformedKinds \cup OtherKinds
  /\ program = "Fisioterapia"
  /\ credits_per_semester = credits_per_semester_fisioterapia
  /\ approved_subjects = <<>>
  /\ semester_options = <<>>
  /\ milp_env = "pulp_missing"

\* The state after construction, whatever the caller's arguments are.
InitState ==
  /\ graph_size = 0
  /\ graph_cache = "empty"
  /\ session = [plan |-> <<>>, total_cost |-> 0, previous_approved_subjects |-> <<>>,
                last_plan_time |-> NoTime, semester_options |-> semester_options]
  /\ variant = "same"
  /\ call = 1
  /\ first_result = [plan |-> <<>>, total_cost |-> 0]
  /\ pc = "start"
  /\ exit_path = "none"
  /\ LocalsCleared

Init ==
  /\ InitHeuristic \/ InitOverrides \/ InitMalformed
  /\ fault_at_call = 0
  /\ InitState

\* The runs of Init, and the runs in which the runtime fails one call.
InitWithFault ==
  /\ \/ (InitHeuristic \/ InitOverrides \/ InitMalformed) /\ fault_at_call = 0
     \/ InitFault
  /\ InitState

\* _current_semester_from_approved(): the semester of the credits of the
\* completed courses that are nodes of the graph
_current_semester_from_approved(approved) ==
  calculate_semester(program,
    SumSeq([c \in Range(G.nodes) |-> node_credits(G, c)],
           SelectSeq(approved, LAMBDA course : course \in Range(G.nodes))))

\* for semester in range(sem, 11): semester_options.setdefault(semester, {...})
with_default_options(options, sem) ==
  [s \in (DOMAIN options) \cup sem..10 |-> options_of(options, s)]

\* Variant: an entry the map already has is left as it is.
sync_entry_kept(options, sem_entry) ==
  [s \in (DOMAIN options) \cup {sem_entry.semester} |-> options_of(options, s)]

\* One pass of "for sem_entry in plan": setdefault, then the three fields of
\* the record written over the entry of its semester
sync_entry(options, sem_entry) ==
  [s \in (DOMAIN options) \cup {sem_entry.semester} |->
     IF s = sem_entry.semester
     THEN [is_half_time |-> sem_entry.is_half_time,
           extra_credits |-> sem_entry.extra_credits,
           intersemestral |-> sem_entry.intersemestral]
     ELSE options[s]]

\* Variant: the failed call leaves an empty plan in the session.
after_exception_cleared(session_) ==
  [session_ EXCEPT !.plan = <<>>, !.total_cost = 0]

\* "except Exception as e: st.error(...); return"
after_exception(session_) == session_

\* update_plan after generate_full_plan returned (plan, total_cost): the
\* four fields stored, then the override map synchronised with the records.
\* The elapsed time is modelled by the number of the call.
after_return(session_, plan_, total_cost_, approved, elapsed) ==
  [plan |-> plan_,
   total_cost |-> total_cost_,
   previous_approved_subjects |-> approved,
   last_plan_time |-> elapsed,
   semester_options |-> fold(sync_entry, plan_, session_.semester_options)]

\* The dataset of a run, as the key the model names it by
dataset_key(courses_, prog) == IF courses_ = "program" THEN prog ELSE courses_

\* build_curriculum_graph applied to the dataset of that key
graph_of(key) ==
  IF key = "Fisioterapia" THEN fisioterapia_G
  ELSE IF key = "Enfermeria" THEN enfermeria_G
  ELSE build_curriculum_graph(dataset_of(key))

\* @st.cache_resource: the only parameter, _courses, has a name that starts
\* with an underscore, so it is no part of the cache key: the first call
\* stores its graph and every later call is answered with the stored one.
cached_call(cache, key) ==
  IF cache = "empty" THEN [stored |-> key, returned |-> key]
  ELSE [stored |-> cache, returned |-> cache]

\* G = build_curriculum_graph(courses), the first call in the process.  The
\* function has no raise of its own: every field is read with info.get and a
\* default, and the edges are added without any test, so it returns a graph
\* for each of these datasets.
Build ==
  /\ pc = "start"
  /\ \E answer \in {cached_call(graph_cache, dataset_key(courses, program))} :
       /\ graph_cache' = answer.stored
       /\ graph_size' = Len(graph_of(answer.returned).nodes)
  /\ pc' = IF courses = "program" THEN "idle" ELSE "built"
  /\ UNCHANGED <<inputs, session, approved_subjects, variant, call, first_result,
                 exit_path, locals>>

\* The two ways the repository calls the function: with the dataset alone,
\* as its signature has it, and as app.py line 237 does, with the program
\* name and the dataset.
CallForms == {"dataset", "program_and_dataset"}

\* app.py lines 216-249 after a plan was made: the user selects the other
\* program and the graph is asked for again, for the other dataset; with
\* the graph returned, the session is cleared for the new program.  The
\* call with two positional arguments ends in a TypeError (the function takes
\* one); the call with the dataset is answered from the cache.
Rebuild ==
  /\ pc = "stored"
  /\ courses = "program"
  /\ \E prog \in Programs \ {program} : \E form \in CallForms :
       /\ program' = prog
       /\ credits_per_semester' = own_table(prog)
       /\ IF form = "program_and_dataset"
          THEN /\ pc' = "type_error"
               /\ UNCHANGED <<graph_size, graph_cache, session>>
          ELSE \E answer \in {cached_call(graph_cache, dataset_key(courses, prog))} :
                 /\ pc' = "reselected"
                 /\ session' = [plan |-> <<>>, total_cost |-> 0,
                                previous_approved_subjects |-> <<>>,
                                last_plan_time |-> NoTime, semester_options |-> <<>>]
                 /\ graph_cache' = answer.stored
                 /\ graph_size' = Len(graph_of(answer.returned).nodes)
  /\ approved_subjects' = <<>>
  /\ semester_options' = <<>>
  /\ variant' = "same"
  /\ call' = 1
  /\ first_result' = [plan |-> <<>>, total_cost |-> 0]
  /\ exit_path' = "none"
  /\ plan' = <<>>
  /\ total_cost' = 0
  /\ approved_local' = <<>>
  /\ semester_options_local' = <<>>
  /\ total_credits_local' = 0
  /\ current_sem' = 1
  /\ semester_counts' = [s \in 1..10 |-> 0]
  /\ max_iterations' = MaxIterations
  /\ UNCHANGED <<courses, milp_env, fault_at_call>>

\* update_plan up to the while loop of generate_full_plan: the entries of
\* the semesters from the current one to 10 are set in the session's override
\* map (app.py lines 268-274), then generate_full_plan is called: the early
\* return, the MILP attempt, and the locals of the heuristic driver.  The
\* call gets the session's map; semester_options is that map without the
\* default entries, which every reader of the map fills in by itself.
Call ==
  /\ pc = "idle"
  /\ session' = [session EXCEPT !.semester_options =
                   with_default_options(@, _current_semester_from_approved(approved_subjects))]
  /\ \E approved \in {approved_subjects} :
     IF lookup_raises(G, summed_names(G, approved)) \/ fault_at_call = call
     THEN /\ pc' = "done"
          /\ exit_path' = "raised"
          /\ UNCHANGED locals
     ELSE
     \E total_credits_approved \in {approved_credit_sum(G, approved)} :
     \E current_semester \in {calculate_semester(program, total_credits_approved)} :
         IF total_credits_approved >= required
         THEN /\ pc' = "done"
              /\ exit_path' = "complete"
              /\ plan' = <<>>
              /\ total_cost' = 0
              /\ UNCHANGED <<approved_local, semester_options_local,
                             total_credits_local, current_sem,
                             semester_counts, max_iterations>>
         ELSE \E attempt \in {milp_attempt(milp_env, G, approved, current_semester,
                                           required, credits_per_semester,
                                           semester_options)} :
                IF attempt.kind = "returned" /\ attempt.plan # <<>>
                THEN /\ pc' = "done"
                     /\ exit_path' = "milp"
                     /\ plan' = attempt.plan
                     /\ total_cost' = attempt.total_cost
                     /\ UNCHANGED <<approved_local, semester_options_local,
                                    total_credits_local, current_sem,
                                    semester_counts, max_iterations>>
                ELSE IF attempt.kind = "raised" /\ ~milp_exception_caught
                THEN /\ pc' = "done"
                     /\ exit_path' = "raised"
                     /\ UNCHANGED locals
                ELSE /\ pc' = "loop"
                     /\ exit_path' = "none"
                     /\ semester_options_local' =
                          _deepcopy_semester_options(semester_options)
                     /\ plan' = <<>>
                     /\ approved_local' = approved
                     /\ total_credits_local' = total_credits_approved
                     /\ current_sem' = current_semester
                     /\ total_cost' = 0
                     /\ semester_counts' = [s \in 1..10 |-> 0]
                     /\ max_iterations' = MaxIterations
  /\ UNCHANGED <<inputs, graph_size, graph_cache, approved_subjects, variant, call, first_result>>

\* One iteration of the while loop
Iterate ==
  /\ pc = "loop"
  /\ loop_continues(total_credits_local, required, max_iterations)
  /\ max_iterations' = max_iterations - 1
  /\ \E best_config \in {best_config_of(G, approved_local, current_sem,
                                         credits_per_semester, required)} :
         IF is_stall(best_config)
         THEN /\ pc' = "done"
              /\ exit_path' = "stalled"
              /\ UNCHANGED <<plan, total_cost, approved_local, total_credits_local,
                             current_sem, semester_counts, approved_subjects>>
         ELSE /\ semester_counts' =
                   [semester_counts EXCEPT ![current_sem] = @ + 1]
              /\ plan' = Append(plan,
                   semester_record(current_sem,
                                   repetition_of(semester_counts', current_sem),
                                   best_config))
              /\ approved_local' = extend_approved(approved_local, best_config)
              /\ approved_subjects' =
                   caller_list_after_extend(approved_subjects, approved_local')
              /\ total_credits_local' = total_credits_local + best_config.credits
                                          + best_config.intersemestral_credits
              /\ total_cost' = total_cost + best_config.semester_cost
              /\ current_sem' = next_semester(program, current_sem, total_credits_local')
              /\ UNCHANGED <<pc, exit_path>>
  /\ UNCHANGED <<inputs, graph_size, graph_cache, session, variant, call, first_result,
                 semester_options_local>>

\* The while condition fails: return plan, total_cost
Return ==
  /\ pc = "loop"
  /\ ~loop_continues(total_credits_local, required, max_iterations)
  /\ pc' = "done"
  /\ exit_path' = IF total_credits_local >= required THEN "complete" ELSE "cap"
  /\ UNCHANGED <<inputs, graph_size, graph_cache, session, approved_subjects, variant, call,
                 first_result, locals>>

\* update_plan after the call of generate_full_plan (app.py lines 289-308):
\* an exception is reported and nothing is stored; a result is stored with
\* the time the call took, and the override map takes the load, the extra
\* credits and the intensive course of every record.  In a later call under
\* a working solver the result depends on the map the session holds by
\* then, so only the first call is followed there.
UpdatePlanReturn ==
  /\ pc = "done"
  /\ call = 1 \/ milp_env # "solver_optimal"
  /\ session' = IF exit_path = "raised" THEN after_exception(session)
                ELSE after_return(session, plan, total_cost, approved_subjects, call)
  /\ pc' = "stored"
  /\ UNCHANGED <<inputs, graph_size, graph_cache, approved_subjects, variant, call,
                 first_result, exit_path, locals>>

\* The caller keeps the result and calls again: with the same arguments, or,
\* when no override and no MILP is in play, with a variant of the completed
\* list.
CallAgain ==
  /\ pc = "stored"
  /\ call < NumCalls
  /\ call' = call + 1
  /\ first_result' = IF call = 1 THEN [plan |-> plan, total_cost |-> total_cost]
                     ELSE first_result
  /\ \E v \in Variants :
       /\ v # "same" => /\ variant = "same"
                        /\ milp_env = "pulp_missing"
                        /\ semester_options = <<>>
                        /\ credits_per_semester = own_table(program)
       /\ v = "repeated" => approved_subjects # <<>>
       /\ variant' = IF variant = "same" THEN v ELSE variant
       /\ approved_subjects' = variant_of(approved_subjects, v)
  /\ pc' = "idle"
  /\ exit_path' = "none"
  /\ plan' = <<>>
  /\ total_cost' = 0
  /\ approved_local' = <<>>
  /\ semester_options_local' = <<>>
  /\ total_credits_local' = 0
  /\ current_sem' = 1
  /\ semester_counts' = [s \in 1..10 |-> 0]
  /\ max_iterations' = MaxIterations
  /\ UNCHANGED <<inputs, graph_size, graph_cache, session>>

Next == Build \/ Call \/ Iterate \/ Return \/ UpdatePlanReturn \/ CallAgain \/ Rebuild

Spec == Init /\ [][Next]_vars

\* The program with a runtime that may fail a call of generate_full_plan.
FaultSpec == InitWithFault /\ [][Next]_vars

\* The call runs to completion: every enabled step is eventually taken.
FairSpec == Spec /\ WF_vars(Next)

TypeOK ==
  /\ pc \in {"start", "built", "idle", "loop", "done", "stored", "reselected",
            "type_error"}
  /\ fault_at_call \in 0..NumCalls
  /\ session.last_plan_time \in 0..NumCalls
  /\ DOMAIN session.semester_options \subseteq 1..10
  /\ graph_cache \in {"empty"} \cup Programs \cup MalformedKinds \cup OtherKinds
  /\ exit_path \in {"none", "milp", "complete", "stalled", "cap", "raised"}
  /\ call \in 1..NumCalls
  /\ variant \in Variants
  /\ milp_env \in MilpEnvironments

\* ------------------------------------------------------------------------
\* Properties of the generated plan
\* ------------------------------------------------------------------------

\* The courses of a record: its subjects and its intensive course
record_courses(r) ==
  Range(r.subjects) \cup (IF r.intersemestral # None THEN {r.intersemestral} ELSE {})

\* What is completed before the term of record i: the caller's completed
\* set and the subjects of the earlier records
completed_before(i) ==
  Range(approved_subjects) \cup UNION {Range(plan[j].subjects) : j \in 1..(i - 1)}

\* The prerequisite and the corequisite edges into a course
prerequisites_of(c) ==
  {p \in Range(predecessors(G, c)) : edge_type(G, p, c) # "corequisite"}

corequisites_of(c) ==
  {p \in Range(predecessors(G, c)) : edge_type(G, p, c) = "corequisite"}

\* The effective capacity of a record's term: the table entry of its nominal
\* semester capped at 10, halved minus one and not below zero for a
\* reduced-load term, plus the extra-credit purchase.
effective_capacity(r) ==
  credit_limit_of(r.semester, credits_per_semester, r.is_half_time) + r.extra_credits

\* Sum of regular and intensive credits over the records
plan_credits(p) ==
  fold(LAMBDA total, r : total + r.credits + r.intersemestral_credits, p, 0)


\* C1: in every record of the plan the regular credits plus the intensive
\* credits stay within the effective capacity of the record's term.
C1_CapacityInvariant ==
  \A i \in 1..Len(plan) :
     plan[i].credits + plan[i].intersemestral_credits <= effective_capacity(plan[i])

\* C2: every prerequisite of every course of a record, the intensive course
\* included, is completed before that record's term: it is in the caller's
\* completed set or in an earlier record.
C2_PrerequisiteSoundness ==
  \A i \in 1..Len(plan) :
     \A c \in record_courses(plan[i]) :
        prerequisites_of(c) \subseteq completed_before(i)

\* C2 witness: a finished plan places a course whose prerequisite the caller
\* had not completed, the prerequisite sitting in an earlier record.
C2_Witness ==
  /\ pc = "done"
  /\ \E i \in 2..Len(plan) :
       \E c \in record_courses(plan[i]) :
          \E p \in prerequisites_of(c) :
             /\ p \notin Range(approved_subjects)
             /\ \E j \in 1..(i - 1) : p \in Range(plan[j].subjects)

\* C3: every corequisite of every regular course of a record is completed
\* before that record's term or is placed in the same record.
C3_CorequisiteSoundness ==
  \A i \in 1..Len(plan) :
     \A c \in Range(plan[i].subjects) :
        corequisites_of(c) \subseteq (completed_before(i) \cup Range(plan[i].subjects))

\* C4: every call of generate_full_plan returns, and the plan never holds
\* more than 30 records.
C4_Terminates ==
  /\ (pc \in {"idle", "loop"}) ~> (pc = "done")
  /\ [](Len(plan) <= 30)

\* C4 witness: a call ended by the iteration counter, with 30 records and the
\* required credits not reached.
C4_Witness ==
  /\ pc = "done"
  /\ exit_path = "cap"
  /\ Len(plan) = 30
  /\ total_credits_local < required

\* C5: inside the loop, an appended record holds a course that was not
\* completed before and is completed after; the completed set only grows;
\* and an iteration whose best configuration has no subject and no intensive
\* course appends nothing and returns the plan built so far.
C5_Step ==
  pc = "loop" =>
    /\ Len(plan') = Len(plan) + 1 =>
         \E c \in record_courses(plan'[Len(plan')]) :
            c \notin Range(approved_local) /\ c \in Range(approved_local')
    /\ Len(plan') \in {Len(plan), Len(plan) + 1}
    /\ Range(approved_local) \subseteq Range(approved_local')
    /\ (/\ loop_continues(total_credits_local, required, max_iterations)
        /\ is_stall(best_config_of(G, approved_local, current_sem,
                                   credits_per_semester, required)))
         => (plan' = plan /\ total_cost' = total_cost /\ pc' = "done")

C5_Progress == [][C5_Step]_vars

\* C5 witness: a call that appended records and then ended on an empty
\* iteration.
C5_Witness ==
  /\ pc = "done"
  /\ exit_path = "stalled"
  /\ Len(plan) >= 2
  /\ \A i \in 1..Len(plan) : record_courses(plan[i]) # {}

\* C6: a call stalls only when no eligible course remains or no eligible
\* course fits the full-load capacity of the current term.
C6_StallOnlyWhenNothingFits ==
  (pc = "done" /\ exit_path = "stalled") =>
    LET available == get_available_subjects(G, approved_local, current_sem)
    IN  \A k \in 1..Len(available) :
           node_credits(G, available[k])
             > credit_limit_of(current_sem, credits_per_semester, FALSE)

\* C7: for Fisioterapia with nothing completed and the program's capacity
\* table, the returned plan brings the accumulated credits to at least 180.
C7_EmptyStartCompletes ==
  (/\ pc = "done"
   /\ program = "Fisioterapia"
   /\ approved_subjects = <<>>
   /\ credits_per_semester = credits_per_semester_fisioterapia)
    => plan_credits(plan) >= 180

\* C8: a later call with the same arguments returns the same sequence of
\* records and the same total cost as the first call.
C8_SecondCallSameResult ==
  (call >= 2 /\ variant = "same" /\ pc = "done") =>
    /\ plan = first_result.plan
    /\ total_cost = first_result.total_cost

\* C8 witness: the second call has returned a plan of several records.
C8_Witness ==
  /\ call = 2
  /\ variant = "same"
  /\ pc = "done"
  /\ Len(plan) >= 2
  /\ plan = first_result.plan

\* C9: for Fisioterapia with nothing completed and the program's capacity
\* table, the first record holds exactly the five first-semester courses,
\* with 19 credits and full load.
C9_FirstRecordIsFirstSemester ==
  (/\ Len(plan) >= 1
   /\ program = "Fisioterapia"
   /\ approved_subjects = <<>>
   /\ credits_per_semester = credits_per_semester_fisioterapia)
    => /\ Range(plan[1].subjects) =
            {c \in Range(G.nodes) : node_semester(G, c) = 1}
       /\ Cardinality(Range(plan[1].subjects)) = 5
       /\ plan[1].credits = 19
       /\ ~plan[1].is_half_time

\* C10: for Fisioterapia with every course of semesters 1 to 9 completed and
\* the program's capacity table, the returned plan has at most one record and
\* every course of it is of nominal semester 10.
C10_LastSemesterOnly ==
  (/\ pc = "done"
   /\ program = "Fisioterapia"
   /\ approved_subjects = completed_up_to(G, 9, {})
   /\ credits_per_semester = credits_per_semester_fisioterapia)
    => /\ Len(plan) <= 1
       /\ \A i \in 1..Len(plan) :
             \A c \in record_courses(plan[i]) : node_semester(G, c) = 10

\* C10 witness: that call returned one record of last-semester courses.
C10_Witness ==
  /\ pc = "done"
  /\ program = "Fisioterapia"
  /\ approved_subjects = completed_up_to(G, 9, {})
  /\ credits_per_semester = credits_per_semester_fisioterapia
  /\ Len(plan) = 1
  /\ plan[1].subjects # <<>>

\* C11: when the override map asks for reduced load in the student's current
\* semester, the record of that term is a reduced-load one and its credits
\* stay within max(0, base // 2 - 1) plus the extra credits of the override.
C11_ReducedLoadOverride ==
  (/\ pc = "done"
   /\ Len(plan) >= 1
   /\ plan[1].semester \in DOMAIN semester_options
   /\ semester_options[plan[1].semester].is_half_time)
    => /\ plan[1].is_half_time
       /\ plan[1].credits
            <= _build_capacity_by_semester(credits_per_semester, semester_options,
                                           {plan[1].semester})[plan[1].semester]

\* C12: every record carries the reduced-load flag, the extra credits and the
\* intensive course the caller's override map gives for the record's
\* semester, and false, 0 and none when the map has no entry for it.
C12_RecordsFollowOverrides ==
  \A i \in 1..Len(plan) :
     LET opts == options_of(semester_options, plan[i].semester)
     IN  /\ plan[i].is_half_time = opts.is_half_time
         /\ plan[i].extra_credits = opts.extra_credits
         /\ plan[i].intersemestral = opts.intersemestral

\* C13: a Semester Record is added only while the accumulated credits are
\* below the program's requirement (180 for Fisioterapia, 189 otherwise),
\* whether by the loop or by the MILP step; and a call whose completed list
\* already holds at least that many credits returns the empty plan and
\* total cost 0.
C13_requirement == IF program = "Fisioterapia" THEN 180 ELSE 189

C13_RecordsOnlyBelowRequirement ==
  /\ []((pc = "done" /\ approved_credit_sum(G, approved_subjects) >= C13_requirement)
          => (plan = <<>> /\ total_cost = 0))
  /\ [][(pc = "loop" /\ plan' # plan) => total_credits_local < C13_requirement]_vars
  /\ [][(pc = "idle" /\ plan' # <<>>)
          => approved_credit_sum(G, approved_subjects) < C13_requirement]_vars

\* A call with every course completed has returned, and another call has
\* added records up to the requirement.
C13_Witness ==
  /\ pc = "done"
  /\ approved_credit_sum(G, approved_subjects) >= C13_requirement
  /\ exit_path = "complete"
  /\ plan = <<>>

C13_WitnessLoop ==
  /\ pc = "done"
  /\ exit_path = "complete"
  /\ Len(plan) >= 2
  /\ total_credits_local >= C13_requirement

\* C14: for completed-course sets C and C' with C a subset of C', the
\* remaining required credits computed from C' are at most those computed
\* from C.  The pairs are the ones the driver produces: the caller's list
\* and the working list grown from it, and the working list before and
\* after an iteration.
C14_RemainingCreditsMonotone ==
  /\ []((pc = "loop" /\ Range(approved_subjects) \subseteq Range(approved_local))
          => remaining_credits_of(G, approved_local, required)
               <= remaining_credits_of(G, approved_subjects, required))
  /\ [][(pc = "loop" /\ Range(approved_local) \subseteq Range(approved_local'))
          => remaining_credits_of(G, approved_local', required)
               <= remaining_credits_of(G, approved_local, required)]_vars

\* The working list has grown past the caller's list and fewer credits remain.
C14_Witness ==
  /\ pc = "loop"
  /\ Len(plan) >= 2
  /\ Range(approved_subjects) \subseteq Range(approved_local)
  /\ Range(approved_subjects) # Range(approved_local)
  /\ remaining_credits_of(G, approved_local, required)
       < remaining_credits_of(G, approved_subjects, required)
  /\ remaining_credits_of(G, approved_local, required) > 0

\* C15: a call whose completed list carries names that are no course of the
\* dataset raises no error and returns the plan and the total cost of the
\* call without those names.
C15_UnknownNamesIgnored ==
  (call >= 2 /\ variant = "unknown_names" /\ pc = "done")
    => /\ exit_path # "raised"
       /\ plan = first_result.plan
       /\ total_cost = first_result.total_cost

\* The call with the unknown names has returned a plan of several records.
C15_Witness ==
  /\ call >= 2
  /\ variant = "unknown_names"
  /\ pc = "done"
  /\ \E i \in 1..Len(approved_subjects) : approved_subjects[i] \notin Range(G.nodes)
  /\ Len(approved_subjects) >= 3
  /\ Len(plan) >= 2
  /\ plan = first_result.plan

\* C16: the completed-course input is treated as a set: a call with the
\* list reordered, or with a course name repeated in it, returns the plan
\* and the total cost of the call with the original list.
C16_CompletedListAsSet ==
  (call >= 2 /\ variant \in {"reordered", "repeated"} /\ pc = "done")
    => /\ plan = first_result.plan
       /\ total_cost = first_result.total_cost

\* The part of C16 about the order alone.
C16_ReorderedSameResult ==
  (call >= 2 /\ variant = "reordered" /\ pc = "done")
    => /\ plan = first_result.plan
       /\ total_cost = first_result.total_cost

C17_WitnessMilp ==
  /\ pc = "done"
  /\ exit_path = "milp"
  /\ semester_options # <<>>
  /\ Len(plan) >= 2

\* C18: the total cost returned with a plan is the sum of the cost fields of
\* its records, and the records are in the order they were produced: the
\* loop only appends to the plan, and the MILP extraction lists the
\* semesters in ascending order.
plan_cost_sum(p) == SumSeq([i \in 1..Len(p) |-> p[i].cost], [i \in 1..Len(p) |-> i])

C18_TotalCostIsSumInOrder ==
  /\ [](pc \in {"loop", "done"} => total_cost = plan_cost_sum(plan))
  /\ [](exit_path = "milp"
          => \A i \in 1..Len(plan) : \A j \in 1..Len(plan) :
               i < j => plan[i].semester < plan[j].semester)
  /\ [][(pc = "loop")
          => \/ plan' = plan
             \/ /\ Len(plan') = Len(plan) + 1
                /\ SubSeq(plan', 1, Len(plan)) = plan]_vars

\* A returned plan of the heuristic driver with records of different costs.
C18_Witness ==
  /\ pc = "done"
  /\ Len(plan) >= 3
  /\ \E i \in 1..Len(plan) : plan[i].cost = 6500000
  /\ \E i \in 1..Len(plan) : plan[i].cost = 10000000
  /\ total_cost = plan_cost_sum(plan)

\* A returned plan of the MILP step with a reduced-load record.
C18_WitnessMilp ==
  /\ pc = "done"
  /\ exit_path = "milp"
  /\ Len(plan) >= 3
  /\ \E i \in 1..Len(plan) : plan[i].cost # 10000000
  /\ total_cost = plan_cost_sum(plan)

\* C19: build_curriculum_graph aborts with a data-integrity error when the
\* dataset has an entry without its credits or semester field, or a cycle
\* among the prerequisite edges.
C19_MalformedDatasetAborts ==
  (courses \in MalformedKinds /\ pc # "start") => pc = "build_error"

\* C20: no failure of the MILP step leaves generate_full_plan.  When PuLP is
\* missing, the step raises, or it returns an empty plan, the call goes on
\* into the heuristic driver, which starts from the caller's list with an
\* empty plan; when the step returns a plan that is not empty, the call
\* returns that plan and its cost as they are.
C20_MilpFailureFallsBack ==
  /\ [](pc = "done" => exit_path # "raised")
  /\ [](exit_path = "milp" => milp_env = "solver_optimal")
  /\ [][(pc = "idle" /\ approved_credit_sum(G, approved_subjects) < required)
          => \E attempt \in {milp_attempt(milp_env, G, approved_subjects,
                               calculate_semester(program,
                                 approved_credit_sum(G, approved_subjects)),
                               required, credits_per_semester, semester_options)} :
               IF attempt.kind = "returned" /\ attempt.plan # <<>>
               THEN /\ pc' = "done"
                    /\ plan' = attempt.plan
                    /\ total_cost' = attempt.total_cost
               ELSE /\ pc' = "loop"
                    /\ plan' = <<>>
                    /\ total_cost' = 0
                    /\ approved_local' = approved_subjects]_vars

\* The solver raised and the heuristic driver has returned its plan.
C20_Witness ==
  /\ pc = "done"
  /\ milp_env = "solver_raises"
  /\ exit_path \in {"complete", "stalled", "cap"}
  /\ Len(plan) >= 2

\* The solver gave an empty plan and the heuristic driver has returned its plan.
C20_WitnessEmpty ==
  /\ pc = "done"
  /\ milp_env = "solver_empty"
  /\ exit_path \in {"complete", "stalled", "cap"}
  /\ Len(plan) >= 2

\* The problem is infeasible under a reduced-load override: the step raises
\* on the solver's status and the heuristic driver has returned its plan.
C20_WitnessInfeasible ==
  /\ pc = "done"
  /\ milp_env = "solver_optimal"
  /\ semester_options # <<>>
  /\ exit_path \in {"complete", "stalled", "cap"}
  /\ Len(plan) >= 2

\* The plan of the MILP step has been returned.
C20_WitnessMilpPlan ==
  /\ pc = "done"
  /\ milp_env = "solver_optimal"
  /\ exit_path = "milp"
  /\ Len(plan) >= 2
  /\ total_cost > 0

\* ------------------------------------------------------------------------
\* Properties of the eligibility list and of the semester selection
\* ------------------------------------------------------------------------

\* The call of get_available_subjects the next iteration makes
in_iteration == pc = "loop" /\ loop_continues(total_credits_local, required, max_iterations)

available_now == get_available_subjects(G, approved_local, current_sem)

\* The courses the eligibility rule admits, given the courses taken as
\* eligible: not completed, inside the semester window, every prerequisite
\* completed, every corequisite completed or eligible.
eligible_given(completed, referenceSemester, eligible) ==
  {c \in Range(G.nodes) :
     /\ c \notin completed
     /\ node_semester(G, c) <= referenceSemester + 1
     /\ prerequisites_of(c) \subseteq completed
     /\ corequisites_of(c) \subseteq (completed \cup eligible)}

\* C21: get_available_subjects returns every course that is not completed,
\* lies inside the semester window, has all its prerequisites completed and
\* has each corequisite completed or in the returned list itself.
C21_EveryEligibleCourseReturned ==
  in_iteration =>
    \E available \in {Range(available_now)} :
       eligible_given(Range(approved_local), current_sem, available) \subseteq available

\* C22: the list get_available_subjects returns has no course twice, and
\* every course of it is not completed, has every prerequisite completed
\* and has a nominal semester of at most the reference semester plus one.
C22_AvailableListSound ==
  in_iteration =>
    \E available \in {available_now} :
       /\ \A i \in 1..Len(available) : \A j \in 1..Len(available) :
             available[i] = available[j] => i = j
       /\ \A i \in 1..Len(available) :
             /\ available[i] \notin Range(approved_local)
             /\ prerequisites_of(available[i]) \subseteq Range(approved_local)
             /\ node_semester(G, available[i]) <= current_sem + 1

\* The list of an iteration in mid-plan holds a course of the next semester
\* whose prerequisites were completed by earlier records.
C22_Witness ==
  /\ in_iteration
  /\ Len(plan) >= 2
  /\ \E c \in Range(available_now) :
       /\ node_semester(G, c) = current_sem + 1
       /\ prerequisites_of(c) # {}
       /\ ~(prerequisites_of(c) \subseteq Range(approved_subjects))

\* The place of a node in the order get_available_subjects visits
node_position(c) == CHOOSE i \in 1..Len(G.nodes) : G.nodes[i] = c

\* C23: a course of the returned list with a corequisite that is not
\* completed has that corequisite in the list too, and the corequisite comes
\* before the course in the node order; so a course whose open corequisite
\* has an open prerequisite is not in the list.
C23_OpenCorequisiteVisitedAndIncluded ==
  in_iteration =>
    \E available \in {Range(available_now)} :
       \A c \in available :
          \A d \in corequisites_of(c) \ Range(approved_local) :
             /\ d \in available
             /\ node_position(d) < node_position(c)
             /\ prerequisites_of(d) \subseteq Range(approved_local)

\* A course is in the list together with its open corequisite.
C23_Witness ==
  /\ in_iteration
  /\ \E c \in Range(available_now) :
       \E d \in corequisites_of(c) :
          /\ d \notin Range(approved_local)
          /\ d \in Range(available_now)

\* A course with completed prerequisites is left out because its open
\* corequisite has an open prerequisite.
C23_WitnessBlocked ==
  /\ in_iteration
  /\ \E c \in Range(G.nodes) \ Range(approved_local) :
       /\ prerequisites_of(c) \subseteq Range(approved_local)
       /\ node_semester(G, c) <= current_sem + 1
       /\ c \notin Range(available_now)
       /\ \E d \in corequisites_of(c) :
            /\ d \notin Range(approved_local)
            /\ ~(prerequisites_of(d) \subseteq Range(approved_local))

\* The selection recommend_subjects makes from the list of the iteration,
\* without an intensive course
selection_now(is_half_time) ==
  recommend_subjects(G, approved_local, current_sem, credits_per_semester,
                     is_half_time, None, available_now).subjects

\* Credits of the courses of list[1..k-1] that are in the selection
credits_selected_before(list, k, selected) ==
  SumSeq([c \in Range(G.nodes) |-> node_credits(G, c)],
         SelectSeq(SubSeq(list, 1, k - 1), LAMBDA c : c \in Range(selected)))

\* C24: in the selection the mandatory courses stand before the optional
\* ones, in the order of the eligibility list, and a mandatory course is
\* selected exactly when its credits fit in the capacity left by the
\* mandatory courses selected before it.
C24_MandatoryFirst ==
  in_iteration =>
    \A is_half_time \in BOOLEAN :
      \E selected \in {selection_now(is_half_time)} :
      \E mandatory \in {SelectSeq(available_now, is_mandatory_name)} :
         /\ SelectSeq(selected, is_mandatory_name)
              = SelectSeq(mandatory, LAMBDA c : c \in Range(selected))
         /\ \A i \in 1..Len(selected) : \A j \in 1..Len(selected) :
               (is_mandatory_name(selected[i]) /\ ~is_mandatory_name(selected[j]))
                  => i < j
         /\ \A k \in 1..Len(mandatory) :
               (mandatory[k] \in Range(selected))
                 <=> (credits_selected_before(mandatory, k, selected)
                        + node_credits(G, mandatory[k])
                      <= credit_limit_of(current_sem, credits_per_semester, is_half_time))

\* Under reduced load a mandatory course is selected, another one does not
\* fit any more, and no optional course is selected in its place unless it
\* fits behind the mandatory ones.
C24_Witness ==
  /\ in_iteration
  /\ \E selected \in {selection_now(TRUE)} :
     \E mandatory \in {SelectSeq(available_now, is_mandatory_name)} :
       /\ Len(mandatory) >= 2
       /\ \E k \in 1..Len(mandatory) : mandatory[k] \in Range(selected)
       /\ \E k \in 1..Len(mandatory) : mandatory[k] \notin Range(selected)
       /\ \E c \in Range(available_now) : ~is_mandatory_name(c)

\* The eligible optional courses whose nominal semester is the reference one
on_track_optional(available) ==
  SelectSeq(available,
            LAMBDA c : ~is_mandatory_name(c) /\ node_semester(G, c) = current_sem)

\* Capacity left after the mandatory courses of the selection
capacity_after_mandatory(selected, is_half_time) ==
  credit_limit_of(current_sem, credits_per_semester, is_half_time)
    - SumSeq([c \in Range(G.nodes) |-> node_credits(G, c)],
             SelectSeq(selected, is_mandatory_name))

\* C25: when the on-track optional courses together fit in the capacity left
\* after the mandatory courses, the selection holds all of them.
C25_OnTrackAllSelected ==
  in_iteration =>
    \A is_half_time \in BOOLEAN :
      \E selected \in {selection_now(is_half_time)} :
      \E on_track \in {on_track_optional(available_now)} :
         (SumSeq([c \in Range(G.nodes) |-> node_credits(G, c)], on_track)
            <= capacity_after_mandatory(selected, is_half_time))
           => Range(on_track) \subseteq Range(selected)

\* The capacity the rule gives a term of semester s: the base capacity of
\* min(s, 10), halved minus one and not below zero under reduced load, plus
\* the extra credits, at most one of them under reduced load, and never
\* more than 25.
capacity_by_rule(s, is_half_time, extra_credits) ==
  LET base == TableGet(credits_per_semester, Min(s, 10), 0)
      c == IF is_half_time THEN Max(0, (base \div 2) - 1) ELSE base
      e == IF is_half_time THEN Min(extra_credits, 1) ELSE extra_credits
  IN  Min(25, c + e)

\* The extra credits a caller may ask for in the capacity computation
ExtraCredits == 0..10

\* C26: the effective capacity computed for a term is min(25, c + e): by
\* _build_capacity_by_semester for every semester, load and extra purchase,
\* and by recommend_subjects for the term of the iteration under the
\* override of that term.
C26_EffectiveCapacity ==
  /\ pc = "idle" =>
       \A s \in 1..10 : \A h \in BOOLEAN : \A e \in ExtraCredits :
          _build_capacity_by_semester(credits_per_semester,
              s :> [is_half_time |-> h, extra_credits |-> e, intersemestral |-> None],
              {s})[s]
            = capacity_by_rule(s, h, e)
  /\ in_iteration =>
       \A h \in BOOLEAN :
          credit_limit_of(current_sem, credits_per_semester, h)
            = capacity_by_rule(current_sem, h,
                               options_of(semester_options, current_sem).extra_credits)

\* The part of C26 that the code meets: without an extra purchase both
\* computations give the base capacity, halved minus one under reduced load.
C26_CapacityWithoutExtra ==
  /\ pc = "idle" =>
       \A s \in 1..10 : \A h \in BOOLEAN :
          _build_capacity_by_semester(credits_per_semester,
              s :> [is_half_time |-> h, extra_credits |-> 0, intersemestral |-> None],
              {s})[s]
            = capacity_by_rule(s, h, 0)
  /\ in_iteration =>
       \A h \in BOOLEAN :
          credit_limit_of(current_sem, credits_per_semester, h)
            = capacity_by_rule(current_sem, h, 0)

\* C27: the cost of a record is the base cost of its load (10,000,000 full,
\* 5,000,000 reduced) plus 1,500,000 for an intensive course plus a
\* surcharge for each extra credit bought: a record with extra credits costs
\* more than the base cost and the intensive surcharge together.
C27_ExtraCreditsSurcharge ==
  \A i \in 1..Len(plan) :
     /\ plan[i].cost >= semester_cost_of(plan[i].is_half_time, plan[i].intersemestral)
     /\ plan[i].extra_credits > 0
          => plan[i].cost > semester_cost_of(plan[i].is_half_time, plan[i].intersemestral)

\* The part of C27 that the code meets: the base cost and the intensive
\* surcharge.
C27_BaseAndIntensiveCost ==
  \A i \in 1..Len(plan) :
     plan[i].cost
       = (IF plan[i].is_half_time THEN 5000000 ELSE 10000000)
           + (IF plan[i].intersemestral # None THEN 1500000 ELSE 0)

\* The three quantities the comparison of C28 orders by, for one pass of
\* "for is_half_time in [False, True]" in the current iteration: the
\* capacity the selection leaves unused, the projected total cost and the
\* estimated remaining terms.
config_key(is_half_time) ==
  LET best_intersemestral ==
        best_intersemestral_of(G, get_intersemestral_options(G, approved_local))
      e == evaluate_config(G, approved_local, current_sem, credits_per_semester,
                           required, is_half_time, best_intersemestral, available_now)
      temp_approved == IF e.config.intersemestral # None
                       THEN Append(approved_local \o e.config.subjects,
                                   e.config.intersemestral)
                       ELSE approved_local \o e.config.subjects
  IN  [gap |-> credit_limit_of(current_sem, credits_per_semester, is_half_time)
                 - e.config.credits,
       projected_cost |-> e.projected_cost,
       remaining_semesters |->
         estimate_remaining_semesters(G, temp_approved, required,
                                      credits_per_semester, is_half_time)]

lexicographically_smaller(a, b) ==
  \/ a.gap < b.gap
  \/ a.gap = b.gap /\ a.projected_cost < b.projected_cost
  \/ a.gap = b.gap /\ a.projected_cost = b.projected_cost
       /\ a.remaining_semesters < b.remaining_semesters

chosen_is_half_time ==
  best_config_of(G, approved_local, current_sem, credits_per_semester,
                 required).is_half_time

\* C28: in each iteration the driver keeps, of the full-load and the
\* reduced-load configuration, the one that is smaller in the lexicographic
\* order (unused capacity, projected total cost, estimated remaining terms).
C28_LexicographicChoice ==
  in_iteration =>
     /\ lexicographically_smaller(config_key(TRUE), config_key(FALSE))
          => chosen_is_half_time
     /\ lexicographically_smaller(config_key(FALSE), config_key(TRUE))
          => ~chosen_is_half_time

\* What the code does: the reduced-load configuration is kept exactly when
\* its projected cost is strictly smaller.
C28_ChoiceByProjectedCost ==
  in_iteration =>
     (chosen_is_half_time
        <=> config_key(TRUE).projected_cost < config_key(FALSE).projected_cost)

\* Both directions of the disagreement, as states that must not occur.
C28_NoReducedWithLargerGap ==
  in_iteration /\ chosen_is_half_time
     => config_key(TRUE).gap <= config_key(FALSE).gap

C28_NoFullWithLargerGap ==
  in_iteration /\ ~chosen_is_half_time
     => config_key(FALSE).gap <= config_key(TRUE).gap

\* The credits accumulated before the i-th record of the plan: the sum the
\* driver starts from (the credits of the completed courses the graph knows)
\* and the credits, intensive ones included, of the records before it.
RECURSIVE recorded_credits(_, _)
recorded_credits(p, n) ==
  IF n = 0 THEN 0
  ELSE recorded_credits(p, n - 1) + p[n].credits + p[n].intersemestral_credits

credits_before(i) ==
  approved_credit_sum(G, approved_subjects) + recorded_credits(plan, i - 1)

\* The largest credit total the step functions are examined on
MaxCredits == 200

step_function_monotone(prog) ==
  \A credits \in 0..MaxCredits :
     /\ calculate_semester(prog, credits) \in 1..10
     /\ calculate_semester(prog, credits) <= calculate_semester(prog, credits + 1)

\* C29: the semester of each record is the program's step function of the
\* credits accumulated before that term; the step function is non-decreasing
\* with values in 1..10; the semesters of successive records never decrease.
C29_SemesterIsStepOfCredits ==
  /\ step_function_monotone(program)
  /\ \A i \in 1..Len(plan) :
        plan[i].semester = calculate_semester(program, credits_before(i))
  /\ \A i \in 1..(Len(plan) - 1) : plan[i].semester <= plan[i + 1].semester

C29_Witness ==
  /\ pc = "done"
  /\ exit_path = "complete"
  /\ Len(plan) >= 3
  /\ \E i \in 1..(Len(plan) - 1) :
        /\ plan[i].semester = plan[i + 1].semester
        /\ plan[i].intersemestral_credits > 0
  /\ \E i \in 1..(Len(plan) - 1) : plan[i].semester < plan[i + 1].semester

earlier_terms_at_level(i) ==
  Cardinality({j \in 1..(i - 1) : plan[j].semester = plan[i].semester})

\* C30: the repetition of each record is 1 plus the number of earlier
\* records of the same plan with the same nominal semester.
C30_RepetitionCountsEarlierTerms ==
  \A i \in 1..Len(plan) : plan[i].repetition = 1 + earlier_terms_at_level(i)

C30_Witness ==
  /\ pc = "done"
  /\ \E i \in 1..Len(plan) : plan[i].repetition >= 3
  /\ \E i \in 2..Len(plan) :
        /\ plan[i].repetition = 1
        /\ plan[i - 1].repetition >= 2

C30_WitnessMilp ==
  /\ pc = "done"
  /\ exit_path = "milp"
  /\ Len(plan) >= 2

\* ------------------------------------------------------------------------
\* Claims C31 to C38
\* ------------------------------------------------------------------------

\* The graph build_curriculum_graph returned for the dataset of this run
built_graph ==
  IF courses = "program" THEN G ELSE build_curriculum_graph(dataset_of(courses))

\* Completed lists get_intersemestral_options is examined on: the list of
\* the caller and the list of the running iteration for a program, every
\* set of courses (in graph order) for another dataset.
completed_lists ==
  IF courses = "program" THEN {approved_subjects, approved_local}
  ELSE {SelectSeq(built_graph.nodes, LAMBDA c : c \in S) :
          S \in SUBSET Range(built_graph.nodes)}

prerequisite_predecessors(graph, c) ==
  {p \in Range(predecessors(graph, c)) : edge_type(graph, p, c) = "prerequisite"}

\* The courses of C31: not completed, of the intensive category, every
\* prerequisite completed; corequisite edges are not looked at.
qualifying_intensive(graph, completed) ==
  {c \in Range(graph.nodes) :
     /\ intersemestral_name_ok(c)
     /\ c \notin completed
     /\ prerequisite_predecessors(graph, c) \subseteq completed}

\* C31: get_intersemestral_options returns exactly the courses of the
\* intensive category that are not completed and whose prerequisites are all
\* completed, whatever their corequisites.
C31_IntensiveOptionsIgnoreCorequisites ==
  pc # "start" =>
     \A approved \in completed_lists :
        Range(get_intersemestral_options(built_graph, approved))
          = qualifying_intensive(built_graph, Range(approved))

\* The same on the graphs of the two programs, where no course of the
\* intensive category has a corequisite.
C31_IntensiveOptionsOfPrograms ==
  (pc # "start" /\ courses = "program") =>
     \A approved \in completed_lists :
        Range(get_intersemestral_options(G, approved))
          = qualifying_intensive(G, Range(approved))

\* The dataset the latest call of build_curriculum_graph was made for
dataset_now ==
  IF courses # "program" THEN dataset_of(courses)
  ELSE IF program = "Fisioterapia" THEN fisioterapia_courses
  ELSE enfermeria_courses

\* The graph that call returned
returned_graph == graph_of(graph_cache)

\* The dependencies an entry lists, each with its kind
listed_edges(info) ==
  {[node |-> info_get(info, "prerequisites", <<>>)[k], type |-> "prerequisite"] :
     k \in 1..Len(info_get(info, "prerequisites", <<>>))}
  \cup
  {[node |-> info_get(info, "corerequisites", <<>>)[k], type |-> "corequisite"] :
     k \in 1..Len(info_get(info, "corerequisites", <<>>))}

\* One node per course of the dataset with its credits and semester, one
\* edge per listed dependency with its kind
graph_matches(graph, _courses) ==
  /\ Len(graph.nodes) = Len(_courses)
  /\ Range(graph.nodes) = {_courses[i].name : i \in 1..Len(_courses)}
  /\ \A i \in 1..Len(_courses) :
        /\ "credits" \in DOMAIN _courses[i]
             => node_credits(graph, _courses[i].name) = _courses[i].credits
        /\ "semester" \in DOMAIN _courses[i]
             => node_semester(graph, _courses[i].name) = _courses[i].semester
        /\ Range(graph.pred[_courses[i].name]) = listed_edges(_courses[i])
        /\ Len(graph.pred[_courses[i].name]) = Cardinality(listed_edges(_courses[i]))

\* C32: every call of build_curriculum_graph, a call for the other program's
\* dataset after an earlier call included, returns the graph of the dataset
\* it was given: one node per course with its credits and semester, one edge
\* per listed prerequisite or corequisite with its kind.
C32_GraphOfTheDatasetPassed ==
  pc # "start" =>
     /\ pc # "type_error"
     /\ graph_matches(returned_graph, dataset_now)

\* The first call in a process returns the graph of its dataset.
C32_FirstCallBuildsTheDataset ==
  pc \in {"built", "idle", "loop", "done"} => graph_matches(returned_graph, dataset_now)

\* A later call for the other dataset is answered: with the graph of the
\* first dataset.
C32_StaleGraphReturned ==
  pc = "reselected" =>
     /\ graph_cache # program
     /\ ~graph_matches(returned_graph, dataset_now)

\* The subjects of all the records of the plan, in order
RECURSIVE planned_subjects(_, _)
planned_subjects(p, n) ==
  IF n = 0 THEN <<>> ELSE planned_subjects(p, n - 1) \o p[n].subjects

\* C33: no course is in the subjects of two records of a plan or twice in
\* one record, and no course of the completed list the call was given is in
\* any record.
C33_NoCourseTwice ==
  \E all \in {planned_subjects(plan, Len(plan))} :
     /\ \A i, j \in 1..Len(all) : all[i] = all[j] => i = j
     /\ \A i \in 1..Len(all) : all[i] \notin Range(approved_subjects)

\* C33 witness: a finished plan of the heuristic driver with several records
\* for a student with completed courses, one record with its intensive
\* course among the subjects.
C33_Witness ==
  /\ pc = "done"
  /\ exit_path = "complete"
  /\ approved_subjects # <<>>
  /\ Len(plan) >= 3
  /\ \E i \in 1..Len(plan) :
        /\ plan[i].intersemestral # None
        /\ plan[i].intersemestral \in Range(plan[i].subjects)

C33_WitnessMilp ==
  /\ pc = "done"
  /\ exit_path = "milp"
  /\ approved_subjects # <<>>
  /\ Len(plan) >= 3

\* The capacity of a load in the term of the iteration: the table entry of
\* min(semester, 10), halved minus one and not below zero under reduced load
mode_capacity(is_half_time) ==
  LET base == TableGet(credits_per_semester, Min(current_sem, 10), 0)
  IN  IF is_half_time THEN Max(0, (base \div 2) - 1) ELSE base

\* Eligible lists recommend_subjects is examined on in an iteration: the
\* list the driver passes, that list reversed, and its mandatory courses alone
eligible_lists ==
  {available_now, Reverse(available_now), mandatory_of(available_now)}

\* The intensive choices recommend_subjects may be given in an iteration
intensive_choices ==
  {None} \cup Range(get_intersemestral_options(G, approved_local))

\* The subjects of a result without the appended intensive course
regular_subjects(r) ==
  IF r.intersemestral_credits > 0 THEN SubSeq(r.subjects, 1, Len(r.subjects) - 1)
  ELSE r.subjects

\* C34: for every eligible list and capacity table, the regular credits
\* recommend_subjects returns, which are the credits of the selected courses
\* without the intensive one, do not exceed the capacity of the load.
C34_RegularCreditsWithinCapacity ==
  in_iteration =>
     \A is_half_time \in BOOLEAN : \A list \in eligible_lists :
        \A intersemestral \in intensive_choices :
           \E r \in {recommend_subjects(G, approved_local, current_sem,
                                        credits_per_semester, is_half_time,
                                        intersemestral, list)} :
              /\ r.credits <= mode_capacity(is_half_time)
              /\ r.credits = SumSeq([c \in Range(G.nodes) |-> node_credits(G, c)],
                                    regular_subjects(r))

\* C34 witness: an iteration in which the reduced load is filled to its
\* capacity and an intensive course of positive credits is on offer, and the
\* full load leaves courses of the list out.
C34_Witness ==
  /\ in_iteration
  /\ intensive_choices # {None}
  /\ recommend_subjects(G, approved_local, current_sem, credits_per_semester,
                        TRUE, None, available_now).credits = mode_capacity(TRUE)
  /\ mode_capacity(TRUE) > 0
  /\ Len(selection_now(FALSE)) < Len(available_now)

credit_weights == [c \in Range(G.nodes) |-> node_credits(G, c)]

\* The credits of the courses of a list that the graph knows, each course
\* counted once
set_credits(list) ==
  SumSeq(credit_weights, first_occurrences(summed_names(G, list)))

on_heuristic_path == pc = "loop" \/ (pc = "done" /\ exit_path \in {"complete", "stalled", "cap"})

\* C35: in every record of the heuristic driver the regular and the
\* intensive credits add up to the credit weights of the record's subjects,
\* and after each iteration the accumulated total of the driver is the
\* credits of the completed courses the call was given plus the credits of
\* all records so far.
C35_CreditAccounting ==
  (on_heuristic_path /\ Len(plan) > 0) =>
     /\ \A i \in 1..Len(plan) :
           plan[i].credits + plan[i].intersemestral_credits
             = SumSeq(credit_weights, plan[i].subjects)
     /\ total_credits_local
          = set_credits(approved_subjects) + recorded_credits(plan, Len(plan))

\* The accounting from the sum the driver starts with, in which a name
\* repeated in the completed list counts each time.
C35_AccountingFromStartingSum ==
  (on_heuristic_path /\ Len(plan) > 0) =>
     /\ \A i \in 1..Len(plan) :
           plan[i].credits + plan[i].intersemestral_credits
             = SumSeq(credit_weights, plan[i].subjects)
     /\ total_credits_local
          = approved_credit_sum(G, approved_subjects) + recorded_credits(plan, Len(plan))

\* C36: in the plans of the heuristic driver an intensive course is taken
\* only in reduced-load terms, a full-load record has no intensive course
\* and no intensive credits, and no record has extra credits.
C36_IntensiveOnlyUnderReducedLoad ==
  on_heuristic_path =>
     \A i \in 1..Len(plan) :
        /\ ~plan[i].is_half_time
             => (plan[i].intersemestral = None /\ plan[i].intersemestral_credits = 0)
        /\ plan[i].extra_credits = 0

\* C36 witness: a finished heuristic plan with full-load records, made while
\* an intensive course was on offer, and a reduced-load record with one.
C36_Witness ==
  /\ pc = "done"
  /\ on_heuristic_path
  /\ \E i \in 1..Len(plan) :
        /\ ~plan[i].is_half_time
        /\ "Precalculo" \notin Range(approved_subjects)
        /\ \A j \in 1..i : "Precalculo" \notin Range(plan[j].subjects)
  /\ \E i \in 1..Len(plan) :
        /\ plan[i].is_half_time
        /\ plan[i].intersemestral # None
        /\ plan[i].intersemestral_credits > 0

\* The four fields update_plan stores are the same in both sessions
stored_fields_kept(before, after) ==
  /\ after.plan = before.plan
  /\ after.total_cost = before.total_cost
  /\ after.previous_approved_subjects = before.previous_approved_subjects
  /\ after.last_plan_time = before.last_plan_time

C37_Step ==
  (pc \in {"idle", "done"} /\ (exit_path' = "raised"))
     => stored_fields_kept(session, session')

\* C37: when generate_full_plan raises during update_plan, the plan, the
\* total cost, the previous completed list and the time of the last plan
\* that the session holds are the ones it held before the call: no step of
\* such a call, from its start to the return of update_plan, changes them.
C37_FailedCallKeepsStoredPlan == [][C37_Step]_vars

\* C37 witness: update_plan has returned from a call that raised, and the
\* session still holds the plan, the cost and the time of the call before.
C37_Witness ==
  /\ pc = "stored"
  /\ exit_path = "raised"
  /\ call = 2
  /\ session.plan # <<>>
  /\ session.plan = first_result.plan
  /\ session.total_cost = first_result.total_cost
  /\ session.last_plan_time = 1

C37_WitnessFirstCall ==
  /\ pc = "stored"
  /\ exit_path = "raised"
  /\ call = 1
  /\ session.plan = <<>>
  /\ session.last_plan_time = NoTime

\* The last record of the plan with the nominal semester s
last_record_of(p, s) ==
  p[CHOOSE i \in 1..Len(p) :
      /\ p[i].semester = s
      /\ \A j \in (i + 1)..Len(p) : p[j].semester # s]

\* C38: after update_plan stored a plan, the session's override map has, for
\* every nominal semester of the plan, the load, the extra credits and the
\* intensive course of the last record of that semester, and it has an entry
\* for every semester from the current one to 10.
C38_OptionsFollowThePlan ==
  (pc = "stored" /\ exit_path # "raised") =>
     /\ session.plan = plan
     /\ \A i \in 1..Len(plan) :
          \E s \in {plan[i].semester} : \E r \in {last_record_of(plan, s)} :
             /\ s \in DOMAIN session.semester_options
             /\ session.semester_options[s].is_half_time = r.is_half_time
             /\ session.semester_options[s].extra_credits = r.extra_credits
             /\ session.semester_options[s].intersemestral = r.intersemestral
     /\ \A s \in _current_semester_from_approved(approved_subjects)..10 :
          s \in DOMAIN session.semester_options

\* C38 witness: a stored plan with two terms at one level, the first under
\* full load and the last under reduced load with an intensive course, and
\* levels before the current one without an entry.
C38_Witness ==
  /\ pc = "stored"
  /\ exit_path # "raised"
  /\ _current_semester_from_approved(approved_subjects) > 1
  /\ 1 \notin DOMAIN session.semester_options
  /\ \E i \in 1..Len(plan) : \E j \in (i + 1)..Len(plan) :
        /\ plan[i].semester = plan[j].semester
        /\ ~plan[i].is_half_time
        /\ plan[j].is_half_time
        /\ plan[j].intersemestral # None
        /\ plan[j] = last_record_of(plan, plan[j].semester)

C38_WitnessMilp ==
  /\ pc = "stored"
  /\ exit_path = "milp"
  /\ \E i \in 1..Len(plan) : plan[i].extra_credits > 0
====
